---- MODULE Spec2Model ----
(***************************************************************************)
(* Knowledge pipeline of profit_graph: Strategist -> Scout -> Architect -> *)
(* Graph Synchronizer -> history mark (knowledge_processor.py), and the    *)
(* second-pass Relationship Refiner (graph_refiner.py), over a shared      *)
(* property graph with MERGE semantics.                                    *)
(*                                                                         *)
(* Strings are sequences of tokens (characters where the code looks at     *)
(* characters, whole words elsewhere).  Python/JSON values are tagged      *)
(* records [t |-> "none" | "num" | "str" | "list" | "dict", v |-> ...].    *)
(***************************************************************************)
EXTENDS Integers, Sequences, FiniteSets, TLC

VARIABLES
    nodes,      \* graph store: sequence of nodes [label, props]; a node's identity is its index
    edges,      \* graph store: set of relationships [type, from, to, props]
    now,        \* the store's clock, read by datetime()
    synced,     \* entity rows committed so far: [vid, name, detail]
    files,      \* names of the files in STORAGE_DIR
    history,    \* processed_history.log: sequence of lines
    neo4jOn,    \* whether NEO4J_URI and NEO4J_PASSWORD are set
    pc,         \* position of the run controller inside run_pipeline
    run,        \* locals of the current run_pipeline call
    trace,      \* events of the current run_pipeline call, in order
    runs,       \* number of run_pipeline calls started
    rpc,        \* position of each Refiner invocation
    rst,        \* locals of each Refiner invocation
    rruns,      \* number of Refiner invocations started
    sIn,        \* Scout harness: the call's inputs
    sOut,       \* Scout harness: the call's result and request log
    aIn,        \* Architect harness: the call's inputs
    aOut,       \* Architect harness: the call's result
    nIn,        \* Text Normalizer harness: the call's input
    nOut,       \* Text Normalizer harness: the call's result
    syncPc,     \* position of each of the concurrent sync_to_neo4j calls
    syncSt      \* arguments and locals of each of the concurrent sync_to_neo4j calls

vars == <<nodes, edges, now, synced, files, history, neo4jOn, pc, run, trace, runs,
          rpc, rst, rruns, sIn, sOut, aIn, aOut, nIn, nOut, syncPc, syncSt>>

graphVars == <<nodes, edges, now, synced>>
pipeVars == <<files, history, neo4jOn, pc, run, trace, runs>>
refVars == <<rpc, rst, rruns>>
scoutVars == <<sIn, sOut>>
archVars == <<aIn, aOut>>
normVars == <<nIn, nOut>>
syncVars == <<syncPc, syncSt>>

----------------------------------------------------------------------------
(* Python values *)

None == [t |-> "none"]
Str(s) == [t |-> "str", v |-> s]
Num(n) == [t |-> "num", v |-> n]
List(s) == [t |-> "list", v |-> s]
Dict(d) == [t |-> "dict", v |-> d]
EmptyDict == Dict(<<>>)
EmptyList == List(<<>>)

\* bool(x)
Truthy(x) ==
    CASE x.t = "none" -> FALSE
      [] x.t = "num" -> x.v # 0
      [] x.t = "str" -> Len(x.v) > 0
      [] x.t = "list" -> Len(x.v) > 0
      [] x.t = "dict" -> DOMAIN x.v # {}

\* d.get(k, default) on a dict value
Get(d, k, default) == IF k \in DOMAIN d.v THEN d.v[k] ELSE default

\* str(x) for the scalar values the model meets
StrOf(x) ==
    CASE x.t = "str" -> x.v
      [] x.t = "num" -> <<"<num>">>
      [] x.t = "none" -> <<"None">>
      [] OTHER -> <<"<repr>">>

----------------------------------------------------------------------------
(* Strings *)

WS == {" ", "\n"}

RECURSIVE LStrip(_)
LStrip(s) == IF s # <<>> /\ Head(s) \in WS THEN LStrip(Tail(s)) ELSE s

RECURSIVE RStrip(_)
RStrip(s) ==
    IF s # <<>> /\ s[Len(s)] \in WS THEN RStrip(SubSeq(s, 1, Len(s) - 1)) ELSE s

\* str.strip()
Strip(s) == RStrip(LStrip(s))

\* str.startswith / str.endswith
StartsWith(s, p) == Len(s) >= Len(p) /\ SubSeq(s, 1, Len(p)) = p
EndsWith(s, p) == Len(s) >= Len(p) /\ SubSeq(s, Len(s) - Len(p) + 1, Len(s)) = p

\* sep.join(parts)
RECURSIVE Join(_, _)
Join(sep, parts) ==
    IF parts = <<>> THEN <<>>
    ELSE IF Len(parts) = 1 THEN parts[1]
    ELSE parts[1] \o sep \o Join(sep, Tail(parts))

\* s.split("_")[0]: the prefix before the first separator
RECURSIVE SplitFirst(_)
SplitFirst(s) ==
    IF s = <<>> \/ Head(s) = "_" THEN <<>> ELSE <<Head(s)>> \o SplitFirst(Tail(s))

\* "bt" is one backtick character
Fence == <<"bt", "bt", "bt">>
FenceJson == Fence \o <<"j", "s", "o", "n">>

\* a cleaner that does not strip again once the fences are gone
clean_json_text_unstripped(text) ==
    LET t1 == Strip(text)
        t2 == IF StartsWith(t1, FenceJson) THEN SubSeq(t1, 8, Len(t1))
              ELSE IF StartsWith(t1, Fence) THEN SubSeq(t1, 4, Len(t1))
              ELSE t1
    IN IF EndsWith(t2, Fence) THEN SubSeq(t2, 1, Len(t2) - 3) ELSE t2

clean_json_text(text) ==
    LET t1 == Strip(text)
        t2 == IF StartsWith(t1, FenceJson) THEN SubSeq(t1, 8, Len(t1))
              ELSE IF StartsWith(t1, Fence) THEN SubSeq(t1, 4, Len(t1))
              ELSE t1
        t3 == IF EndsWith(t2, Fence) THEN SubSeq(t2, 1, Len(t2) - 3) ELSE t2
    IN Strip(t3)

----------------------------------------------------------------------------
(* Structured data.  A JSON document is one token of text; json.loads      *)
(* looks the token up, and fails on any other text.                        *)

Claude == <<"Claude">>
Cursor == <<"Cursor">>
Tool == <<"Tool">>
Model == <<"Model">>

\* entity records as the generation model emits them
EntClaudeModel == Dict([name |-> Str(Claude), type |-> Str(Model), detail |-> Str(<<"d1">>)])
EntClaudeTool == Dict([name |-> Str(Claude), type |-> Str(Tool), detail |-> Str(<<"d2">>)])
EntCursor == Dict([name |-> Str(Cursor), type |-> Str(Tool), detail |-> Str(<<"d1">>)])
EntNoType == Dict([name |-> Str(Cursor), detail |-> Str(<<"d1">>)])
EntNoName == Dict([type |-> Str(Tool), detail |-> Str(<<"d1">>)])
EntNullName == Dict([name |-> None, type |-> Str(Tool), detail |-> Str(<<"d1">>)])
EntNoDetail == Dict([name |-> Str(Cursor), type |-> Str(Tool)])

Brief1 == <<"# brief one">>
Brief2 == <<"# brief two">>

DocFull ==
    Dict([filename |-> Str(<<"smart_name.md">>), content |-> Str(Brief1),
          marketing |-> Dict([viral_tweet |-> Str(<<"hook">>), linkedin |-> Str(<<"post">>)]),
          entities |-> List(<<EntClaudeModel, EntCursor>>)])
DocPlain ==
    Dict([filename |-> Str(<<"plain.md">>), content |-> Str(Brief2),
          entities |-> List(<<EntClaudeTool, EntNoType, EntNoName>>)])

JsonDocs ==
    [d \in {"{full}", "{plain}", "{claude}", "{nullents}", "{numcontent}", "{nullcontent}",
            "{bare}", "{strmarketing}", "{emptymarketing}", "{halfmarketing}",
            "{nummarketing}", "{nullname}", "{nodetail}", "{notypes}", "[{full}]", "[]", "[5]",
            "5",
            "{rq0}", "{rq1}", "{rq2}", "{rq3}", "{questions}", "{rqnum}", "[q1]",
            "[rels]", "[badrels]", "[otherrel]", "[mixedrels]", "{rels}"} |->
        CASE d = "{full}" -> DocFull
          [] d = "{plain}" -> DocPlain
          [] d = "{claude}" ->
                Dict([content |-> Str(Brief2), entities |-> List(<<EntClaudeModel>>)])
          [] d = "{nullents}" -> Dict([content |-> Str(Brief1), entities |-> None])
          [] d = "{numcontent}" -> Dict([content |-> Num(5)])
          [] d = "{nullcontent}" -> Dict([content |-> None, entities |-> List(<<EntCursor>>)])
          [] d = "{bare}" -> Dict([filename |-> Str(<<"bare.md">>)])
          [] d = "{strmarketing}" ->
                Dict([content |-> Str(Brief1), marketing |-> Str(<<"buy now">>)])
          [] d = "{emptymarketing}" -> Dict([content |-> Str(Brief1), marketing |-> EmptyDict])
          [] d = "{halfmarketing}" ->
                Dict([content |-> Str(Brief1), marketing |-> Dict([viral_tweet |-> Str(<<"hook">>)])])
          [] d = "{nummarketing}" ->
                Dict([content |-> Str(Brief1), marketing |-> Dict([viral_tweet |-> Num(5)])])
          [] d = "{nullname}" -> Dict([content |-> Str(Brief1), entities |-> List(<<EntNullName>>)])
          [] d = "{nodetail}" -> Dict([content |-> Str(Brief1), entities |-> List(<<EntNoDetail>>)])
          [] d = "{notypes}" ->
                Dict([content |-> Str(Brief1), entities |-> List(<<EntNoType, EntNoName>>)])
          [] d = "[{full}]" -> List(<<DocFull>>)
          [] d = "[]" -> EmptyList
          [] d = "[5]" -> List(<<Num(5)>>)
          [] d = "5" -> Num(5)
          [] d = "{rq0}" -> Dict([research_questions |-> EmptyList])
          [] d = "{rq1}" -> Dict([research_questions |-> List(<<Str(<<"Cost?">>)>>)])
          [] d = "{rq2}" ->
                Dict([research_questions |-> List(<<Str(<<"Cost?">>), Str(<<"Implementation?">>)>>)])
          [] d = "{rq3}" ->
                Dict([research_questions |->
                        List(<<Str(<<"Cost?">>), Str(<<"Implementation?">>), Str(<<"Limits?">>)>>)])
          [] d = "{questions}" -> Dict([questions |-> List(<<Str(<<"Cost?">>)>>)])
          [] d = "{rqnum}" -> Dict([research_questions |-> Num(5)])
          [] d = "[q1]" -> List(<<Str(<<"Cost?">>)>>)
          [] d = "[rels]" ->
                List(<<Dict([source |-> Str(Cursor), target |-> Str(Claude),
                             rel |-> Str(<<"INTEGRATES_WITH">>)])>>)
          [] d = "[badrels]" ->
                List(<<Dict([source |-> Str(Cursor), target |-> Str(Claude)]),
                       Dict([source |-> Str(Cursor), target |-> Str(<<"GPT-4">>),
                             rel |-> Str(<<"COMPETES WITH">>)])>>)
          [] d = "[otherrel]" ->
                List(<<Dict([source |-> Str(Claude), target |-> Str(Cursor),
                             rel |-> Str(<<"POWERS">>)])>>)
          [] d = "[mixedrels]" ->
                List(<<Dict([source |-> Str(Cursor), target |-> Str(Claude)]),
                       Dict([source |-> Str(Claude), target |-> Str(Cursor),
                             rel |-> Str(<<"POWERS">>)])>>)
          [] d = "{rels}" -> Dict([relationships |-> EmptyList])]

\* json.loads(text): the parsed value, or ok = FALSE for a JSONDecodeError
JsonLoads(text) ==
    LET s == Strip(text)
    IN IF Len(s) = 1 /\ s[1] \in DOMAIN JsonDocs
       THEN [ok |-> TRUE, v |-> JsonDocs[s[1]]]
       ELSE [ok |-> FALSE]

\* What a generation-model call gives back: an exception, a response whose
\* text is None, or a response with text.
GenExc == [k |-> "exc"]
GenNoText == [k |-> "notext"]
GenText(s) == [k |-> "text", text |-> s]

----------------------------------------------------------------------------
(* Agent 1: the Strategist *)

\* logOK: whether save_debug_log can write.  Everything from the model call
\* to the debug record sits in one try; any exception gives the empty plan.
StrategistFails(resp, logOK) ==
    \/ resp.k # "text"
    \/ ~JsonLoads(clean_json_text(resp.text)).ok
    \/ ~logOK

\* the plan of the handler, lines 157-159
EmptyPlan == Dict([research_questions |-> EmptyList])

\* a handler that gives nothing back
identify_gaps_no_plan(resp, logOK) ==
    IF StrategistFails(resp, logOK) THEN None
    ELSE JsonLoads(clean_json_text(resp.text)).v

identify_gaps(resp, logOK) ==
    IF StrategistFails(resp, logOK) THEN EmptyPlan
    ELSE JsonLoads(clean_json_text(resp.text)).v

----------------------------------------------------------------------------
(* Agent 2: the Scout *)

\* Outcome of one research request: a 200 response with an answer, another
\* status, or an exception raised by the transport.
ReqOk(a) == [k |-> "ok", answer |-> a]
ReqHttp == [k |-> "http"]
ReqExc == [k |-> "exc"]
ReqOutcomes == {ReqOk(<<"a1">>), ReqHttp, ReqExc}

\* Lines 163-169: the question list of a plan; ret = TRUE is `return ""`.
ScoutQueries(plan) ==
    LET q0 == CASE plan.t = "list" -> plan
                [] plan.t = "dict" ->
                     LET q == Get(plan, "research_questions", EmptyList)
                     IN IF ~Truthy(q) /\ "questions" \in DOMAIN plan.v
                        THEN plan.v["questions"] ELSE q
                [] OTHER -> None
    IN IF plan.t \notin {"list", "dict"} \/ ~Truthy(q0)
       THEN [ret |-> TRUE]
       ELSE [ret |-> FALSE, queries |-> q0]

\* len(queries), line 171, raises for a value without a length; of the
\* truthy values the plans hold, the lists have one and the numbers none
ScoutSized(q) == q.t = "list"

\* The answer the loop body binds for one outcome
ScoutAnswer(o) ==
    CASE o.k = "ok" -> o.answer
      [] o.k = "http" -> <<"API Error">>
      [] o.k = "exc" -> <<"<exception text>">>

\* a block that leaves the question out
ScoutBlockAnswerOnly(q, o) ==
    IF o.k = "ok" THEN << <<"A: ">> \o ScoutAnswer(o) \o <<"\n">> >> ELSE <<>>

\* What one loop iteration appends to research_summary
ScoutBlock(q, o) ==
    IF o.k = "ok"
    THEN << <<"Q: ">> \o StrOf(q) \o <<"\nA: ">> \o ScoutAnswer(o) \o <<"\n">> >>
    ELSE <<>>

RECURSIVE ScoutSummary(_, _)
ScoutSummary(qs, os) ==
    IF qs = <<>> THEN <<>>
    ELSE ScoutBlock(Head(qs), Head(os)) \o ScoutSummary(Tail(qs), Tail(os))

DossierSep == <<"\n---\n">>

\* execute_research_plan with the outcome of each request given in order.
\* raised = TRUE: an exception leaves the function.
execute_research_plan(plan, os, logOK) ==
    LET sq == ScoutQueries(plan)
    IN IF sq.ret THEN [raised |-> FALSE, dossier |-> <<>>, requests |-> <<>>]
       ELSE IF ~ScoutSized(sq.queries)
       THEN [raised |-> TRUE, dossier |-> <<>>, requests |-> <<>>]
       ELSE LET qs == sq.queries.v
                reqs == [i \in 1..Len(qs) |-> StrOf(qs[i])]
            IN [raised |-> ~logOK,
                dossier |-> IF logOK THEN Join(DossierSep, ScoutSummary(qs, os)) ELSE <<>>,
                requests |-> reqs]

\* Number of requests a plan leads to
ScoutCount(plan) ==
    LET sq == ScoutQueries(plan)
    IN IF sq.ret \/ ~ScoutSized(sq.queries) THEN 0 ELSE Len(sq.queries.v)

----------------------------------------------------------------------------
(* Agent 3: the Architect *)

MarketingHead == <<"\n\n## Marketing Assets\n**Viral Tweet:** ">>
MarketingMid == <<"\n\n**LinkedIn:**\n">>
FallbackName == <<"strategy_fallback.md">>

\* Line 265: content += head + tweet + mid + linkedin; ok = FALSE is the
\* TypeError of adding a value that is not a string.
MarketingAppend(c0, tw, li) ==
    IF tw.t # "str" \/ li.t # "str" THEN [ok |-> FALSE]
    ELSE [ok |-> TRUE, content |-> Str(c0.v \o MarketingHead \o tw.v \o MarketingMid \o li.v)]

\* Lines 262-265 for the content c0 and the marketing value mk of the data
ArchitectContent(c0, mk) ==
    IF ~Truthy(mk) THEN [ok |-> TRUE, content |-> c0]
    ELSE IF mk.t # "dict" \/ c0.t # "str" THEN [ok |-> FALSE]
    ELSE MarketingAppend(c0, Get(mk, "viral_tweet", Str(<<>>)), Get(mk, "linkedin", Str(<<>>)))

\* Lines 261, 266, 267 once the content c is known
ArchitectRecord(c, d, video_id) ==
    IF ~c.ok THEN [ok |-> FALSE]
    ELSE [ok |-> TRUE, content |-> c.content, entities |-> Get(d, "entities", EmptyList),
          filename |-> video_id \o <<"_">> \o StrOf(Get(d, "filename", Str(<<"strategy.md">>)))]

\* Lines 261-267: data.get raises for a value that is not a dict
ArchitectDict(d, video_id) ==
    IF d.t # "dict" THEN [ok |-> FALSE]
    ELSE ArchitectRecord(ArchitectContent(Get(d, "content", Str(<<>>)),
                                          Get(d, "marketing", EmptyDict)), d, video_id)

\* a line 259 that takes the parsed value as it is
ArchitectDataAsIs(v, video_id) == ArchitectDict(v, video_id)

\* Line 259: the first element of a list (IndexError for an empty one), or
\* the value itself
ArchitectData(v, video_id) ==
    IF v.t # "list" THEN ArchitectDict(v, video_id)
    ELSE IF Len(v.v) = 0 THEN [ok |-> FALSE]
    ELSE ArchitectDict(v.v[1], video_id)

\* Lines 257-267, the inner try, for the result p of json.loads: ok = FALSE
\* is any exception inside it.
ArchitectParsed(p, video_id) ==
    IF ~p.ok THEN [ok |-> FALSE] ELSE ArchitectData(p.v, video_id)

ArchitectParse(text, video_id) == ArchitectParsed(JsonLoads(text), video_id)

\* a handler of the inner try that keeps the default file name
ArchitectOutcomeDefaultName(p, text, video_id) ==
    IF p.ok
    THEN [content |-> p.content, entities |-> p.entities, filename |-> p.filename,
          fallback |-> FALSE]
    ELSE [content |-> Str(text), entities |-> EmptyList,
          filename |-> video_id \o <<"_">> \o <<"strategy.md">>, fallback |-> TRUE]

\* Lines 257-272: what the inner try or its handler (lines 268-272) leaves
\* in content, entities and final_filename
ArchitectOutcome(p, text, video_id) ==
    IF p.ok
    THEN [content |-> p.content, entities |-> p.entities, filename |-> p.filename,
          fallback |-> FALSE]
    ELSE [content |-> Str(text), entities |-> EmptyList,
          filename |-> video_id \o <<"_">> \o FallbackName, fallback |-> TRUE]

\* Lines 275-285.  exc = TRUE: an exception reaches the outer handler.
\* saved: the artifact written before that; open(filepath, 'w') creates the
\* file before f.write can raise.  fileOK / logOK: whether the brief file /
\* the debug log can be written.
ArchitectWrite(o, fileOK, logOK) ==
    IF ~fileOK THEN [exc |-> TRUE, saved |-> None]
    ELSE IF o.content.t # "str"
    THEN [exc |-> TRUE, saved |-> Dict([name |-> Str(o.filename), content |-> Str(<<>>)])]
    ELSE IF ~logOK
    THEN [exc |-> TRUE, saved |-> Dict([name |-> Str(o.filename), content |-> o.content])]
    ELSE [exc |-> FALSE, saved |-> Dict([name |-> Str(o.filename), content |-> o.content]),
          content |-> o.content, entities |-> o.entities, fallback |-> o.fallback]

\* Lines 254-285 for the cleaned response text
ArchitectText(text, video_id, fileOK, logOK) ==
    ArchitectWrite(ArchitectOutcome(ArchitectParse(text, video_id), text, video_id),
                   fileOK, logOK)

\* Lines 248-285, the body of the outer try
ArchitectBody(resp, video_id, fileOK, logOK) ==
    IF resp.k # "text" THEN [exc |-> TRUE, saved |-> None]
    ELSE ArchitectText(clean_json_text(resp.text), video_id, fileOK, logOK)

\* a handler that lets the exception of the body through
ArchitectNoCatch(b) ==
    IF b.exc
    THEN [raised |-> TRUE, brief |-> None, entities |-> EmptyList, saved |-> b.saved]
    ELSE [raised |-> FALSE, brief |-> b.content, entities |-> b.entities, saved |-> b.saved]

\* The outer handler: every exception of the body becomes (None, []).
ArchitectCatch(b) ==
    IF b.exc
    THEN [raised |-> FALSE, brief |-> None, entities |-> EmptyList, saved |-> b.saved]
    ELSE [raised |-> FALSE, brief |-> b.content, entities |-> b.entities, saved |-> b.saved]

synthesize_strategy(resp, video_id, fileOK, logOK) ==
    ArchitectCatch(ArchitectBody(resp, video_id, fileOK, logOK))

----------------------------------------------------------------------------
(* The graph store.  A graph g is [nodes, edges].  MERGE matches every     *)
(* node (relationship) that carries the given label (type) and properties, *)
(* and creates one only when none matches.  A statement runs in its own    *)
(* transaction: it takes effect as a whole or, on an error, not at all.    *)

Graph == [nodes |-> nodes, edges |-> edges]

\* indices of the nodes with this label whose property k equals v
Match(g, label, k, v) ==
    {i \in 1..Len(g.nodes) :
        /\ g.nodes[i].label = label
        /\ k \in DOMAIN g.nodes[i].props
        /\ g.nodes[i].props[k] = v}

\* CREATE (:label {k: v})
CreateNode(g, label, k, v) ==
    [g EXCEPT !.nodes = Append(@, [label |-> label, props |-> (k :> v)])]

\* CREATE in the place of MERGE: a node is added whether or not one matches
MergeNodeNoMatch(g, label, k, v) ==
    [g EXCEPT !.nodes = Append(@, [label |-> label, props |-> (k :> v)])]

\* MERGE (:label {k: v})
MergeNode(g, label, k, v) ==
    IF Match(g, label, k, v) = {} THEN CreateNode(g, label, k, v) ELSE g

\* a SET that keeps a value the node already has
SetPropIfAbsent(g, ns, k, v) ==
    [g EXCEPT !.nodes =
        [i \in 1..Len(@) |->
            IF i \in ns THEN [@[i] EXCEPT !.props = @ @@ (k :> v)] ELSE @[i]]]

\* SET n.k = v for every n of ns
SetProp(g, ns, k, v) ==
    [g EXCEPT !.nodes =
        [i \in 1..Len(@) |->
            IF i \in ns THEN [@[i] EXCEPT !.props = (k :> v) @@ @] ELSE @[i]]]

\* SET n.k = null for every n of ns: the property is removed
RemoveProp(g, ns, k) ==
    [g EXCEPT !.nodes =
        [i \in 1..Len(@) |->
            IF i \in ns
            THEN [@[i] EXCEPT !.props = [x \in (DOMAIN @) \ {k} |-> @[x]]]
            ELSE @[i]]]

\* a MERGE that keeps only the relationships it asks for
MergeRelReplace(g, as, type, props, bs) ==
    [g EXCEPT !.edges =
        {[type |-> type, from |-> a, to |-> b, props |-> props] : a \in as, b \in bs}]

\* MERGE (a)-[:type props]->(b) for every a of as and b of bs
MergeRel(g, as, type, props, bs) ==
    [g EXCEPT !.edges = @ \cup
        {[type |-> type, from |-> a, to |-> b, props |-> props] : a \in as, b \in bs}]

NoProps == <<>>

\* a Strategy id that does not depend on the case
StratIdShared(vid) == <<"strat">>

StratId(vid) == vid \o <<"_strat">>
ResId(vid) == vid \o <<"_res">>

\* a base statement that clears the stamp of the Strategy it overwrites
SyncBaseStmtUnstamps(g, vid, strategy, research, t) ==
    LET g1 == MergeNode(g, "Video", "id", vid)
        vs == Match(g1, "Video", "id", vid)
        g2 == SetProp(g1, vs, "last_processed", t)
        g3 == MergeNode(g2, "Strategy", "id", StratId(vid))
        ss == Match(g3, "Strategy", "id", StratId(vid))
        g4 == SetProp(g3, ss, "content", strategy)
        g5 == MergeNode(g4, "Research", "id", ResId(vid))
        rs == Match(g5, "Research", "id", ResId(vid))
        g6 == SetProp(g5, rs, "content", research)
        g7 == MergeRel(g6, vs, <<"YIELDS_STRATEGY">>, NoProps, ss)
        g8 == MergeRel(g7, ss, <<"BASED_ON_RESEARCH">>, NoProps, rs)
    IN [g8 EXCEPT !.edges = {e \in @ : ~(e.type = <<"REFINED_BY">> /\ e.from \in ss)}]

\* query_base (lines 302-311)
SyncBaseStmt(g, vid, strategy, research, t) ==
    LET g1 == MergeNode(g, "Video", "id", vid)
        vs == Match(g1, "Video", "id", vid)
        g2 == SetProp(g1, vs, "last_processed", t)
        g3 == MergeNode(g2, "Strategy", "id", StratId(vid))
        ss == Match(g3, "Strategy", "id", StratId(vid))
        g4 == SetProp(g3, ss, "content", strategy)
        g5 == MergeNode(g4, "Research", "id", ResId(vid))
        rs == Match(g5, "Research", "id", ResId(vid))
        g6 == SetProp(g5, rs, "content", research)
        g7 == MergeRel(g6, vs, <<"YIELDS_STRATEGY">>, NoProps, ss)
    IN MergeRel(g7, ss, <<"BASED_ON_RESEARCH">>, NoProps, rs)

\* a filter that asks for the name only
ValidEntitiesNameOnly(items) == SelectSeq(items, LAMBDA e : "name" \in DOMAIN e.v)

\* valid_entities (line 326)
ValidEntities(items) ==
    SelectSeq(items, LAMBDA e : "name" \in DOMAIN e.v /\ "type" \in DOMAIN e.v)

\* item.k in Cypher: null when the map lacks the key
Field(item, k) == Get(item, k, None)

\* MERGE refuses a null property value: the statement fails
EntityStmtFails(batch) ==
    \E i \in 1..Len(batch) :
        Field(batch[i], "name").t = "none" \/ Field(batch[i], "detail").t = "none"

\* a row that creates its Entity node instead of merging it by name
EntityRowCreate(g, ss, item) ==
    LET name == Field(item, "name").v
        g1 == [g EXCEPT !.nodes = Append(@, [label |-> "Entity", props |-> [name |-> name]])]
        es == {Len(g1.nodes)}
        g2 == IF Field(item, "type").t = "none"
              THEN RemoveProp(g1, es, "type")
              ELSE SetProp(g1, es, "type", Field(item, "type").v)
    IN MergeRel(g2, ss, <<"MENTIONS">>, [detail |-> Field(item, "detail").v], es)

\* one row of query_entities (lines 317-319) for the Strategy nodes ss
EntityRow(g, ss, item) ==
    LET name == Field(item, "name").v
        g1 == MergeNode(g, "Entity", "name", name)
        es == Match(g1, "Entity", "name", name)
        g2 == IF Field(item, "type").t = "none"
              THEN RemoveProp(g1, es, "type")
              ELSE SetProp(g1, es, "type", Field(item, "type").v)
    IN MergeRel(g2, ss, <<"MENTIONS">>, [detail |-> Field(item, "detail").v], es)

RECURSIVE EntityRows(_, _, _)
EntityRows(g, ss, batch) ==
    IF batch = <<>> THEN g
    ELSE EntityRows(EntityRow(g, ss, Head(batch)), ss, Tail(batch))

\* query_entities (lines 314-320) on a batch that does not make it fail
SyncEntitiesStmt(g, vid, batch) ==
    LET ss == Match(g, "Strategy", "id", StratId(vid))
    IN IF ss = {} THEN g ELSE EntityRows(g, ss, batch)

\* a WHERE clause that sees no stamp
RefinedNever(g, s) == FALSE

\* WHERE NOT (s)-[:REFINED_BY]->(:RefinerLog)
Refined(g, s) ==
    \E e \in g.edges :
        e.type = <<"REFINED_BY">> /\ e.from = s /\ g.nodes[e.to].label = "RefinerLog"

\* the selection without its WHERE clause
UnrefinedNoFilter(g) == {i \in 1..Len(g.nodes) : g.nodes[i].label = "Strategy"}

Unrefined(g) ==
    {i \in 1..Len(g.nodes) : g.nodes[i].label = "Strategy" /\ ~Refined(g, i)}

BatchLimit == 5

Min(a, b) == IF a < b THEN a ELSE b

\* get_unrefined_strategies: the results the store may return, LIMIT rows
\* of the unrefined strategies in any order.
get_unrefined_strategies(g) ==
    LET U == Unrefined(g)
        k == Min(BatchLimit, Cardinality(U))
    IN {[i \in 1..k |-> [id |-> g.nodes[s[i]].props.id, text |-> g.nodes[s[i]].props.content]] :
            s \in {f \in [1..k -> U] : \A i, j \in 1..k : i # j => f[i] # f[j]}}

\* relationship types the query language parses after the colon
CypherIdentifier(type) == type \notin {<<"COMPETES WITH">>, <<"<num>">>, <<"<repr>">>}

\* Lines 75-82 for one triple: whether building or running the statement raises
TripleFails(r) ==
    \/ r.t # "dict"
    \/ {"rel", "source", "target"} \ DOMAIN r.v # {}
    \/ ~CypherIdentifier(StrOf(r.v["rel"]))
    \/ r.v["source"].t = "none"
    \/ r.v["target"].t = "none"

\* the verbs the prompt asks for (lines 40-43)
Vocabulary == {<<"INTEGRATES_WITH">>, <<"RUNS_ON">>, <<"COMPETES_WITH">>, <<"MITIGATES">>}

\* a statement that files a verb outside the vocabulary under one type
TripleStmtRemap(g, r) ==
    LET g1 == MergeNode(g, "Entity", "name", r.v["source"].v)
        g2 == MergeNode(g1, "Entity", "name", r.v["target"].v)
    IN MergeRel(g2, Match(g2, "Entity", "name", r.v["source"].v),
                IF StrOf(r.v["rel"]) \in Vocabulary THEN StrOf(r.v["rel"]) ELSE <<"RELATED_TO">>,
                NoProps, Match(g2, "Entity", "name", r.v["target"].v))

\* a statement that also types the entities it merges
TripleStmtTyped(g, r) ==
    LET g1 == MergeNode(g, "Entity", "name", r.v["source"].v)
        g2 == MergeNode(g1, "Entity", "name", r.v["target"].v)
        g3 == SetProp(g2, Match(g2, "Entity", "name", r.v["source"].v), "type", <<"Concept">>)
    IN MergeRel(g3, Match(g3, "Entity", "name", r.v["source"].v), StrOf(r.v["rel"]),
                NoProps, Match(g3, "Entity", "name", r.v["target"].v))

\* the statement of lines 77-81
TripleStmt(g, r) ==
    LET g1 == MergeNode(g, "Entity", "name", r.v["source"].v)
        g2 == MergeNode(g1, "Entity", "name", r.v["target"].v)
    IN MergeRel(g2, Match(g2, "Entity", "name", r.v["source"].v), StrOf(r.v["rel"]),
                NoProps, Match(g2, "Entity", "name", r.v["target"].v))

\* the statement of lines 89-93
StampStmt(g, sid, t) ==
    LET ss == Match(g, "Strategy", "id", sid)
        g1 == MergeNode(g, "RefinerLog", "timestamp", t)
    IN IF ss = {} THEN g
       ELSE MergeRel(g1, ss, <<"REFINED_BY">>, NoProps, Match(g1, "RefinerLog", "timestamp", t))

----------------------------------------------------------------------------
(* History and the working directory *)

Suffix == <<"_", "transcript.json">>
FileA == <<"a">> \o Suffix
FileB == <<"b">> \o Suffix
FileAC == <<"a", "_", "c">> \o Suffix
FileU == <<"_", "a">> \o Suffix
FileNotes == <<"b", "_", "notes.md">>
MissingFile == <<"z">> \o Suffix

\* the working directories the runs start from
DirTwoVideos == {FileA, FileAC, FileB, FileNotes}
DirUnderscore == {FileU}
Dirs == {DirTwoVideos, DirUnderscore}

\* load_history (lines 71-75): the stripped non-blank lines
load_history(h) == {Strip(h[i]) : i \in {j \in 1..Len(h) : Strip(h[j]) # <<>>}}

\* mark_as_complete (lines 77-79): one more line
mark_as_complete(h, video_id) == Append(h, video_id)

\* get_available_transcripts (lines 98-113), as the set of its (id, path) pairs
get_available_transcripts(fs, h) ==
    {<<SplitFirst(f), f>> : f \in {x \in fs : EndsWith(x, Suffix) /\ SplitFirst(x) \notin load_history(h)}}

----------------------------------------------------------------------------
(* Bounds and the inputs the runs draw from *)

MaxRuns == 2
MaxRefRuns == 2
MaxClock == 1
MaxOps == 3

StrategistResponses ==
    {GenExc, GenNoText, GenText(<<"not json">>), GenText(<<"{rq1}">>), GenText(<<"{rqnum}">>)}

ArchitectResponses ==
    {GenExc, GenText(<<"not json">>), GenText(<<"{full}">>),
     GenText(FenceJson \o <<"\n", "{plain}", "\n">> \o Fence),
     GenText(<<"{nullents}">>), GenText(<<"{bare}">>), GenText(<<"{notypes}">>)}

\* responses of the Architect's model in the runs that reach the graph
GraphResponses ==
    {GenText(<<"{full}">>), GenText(FenceJson \o <<"\n", "{plain}", "\n">> \o Fence)}

RefinerResponses ==
    {GenExc, GenText(<<"[rels]">>), GenText(<<"[badrels]">>), GenText(<<"[]">>),
     GenText(<<"5">>)}

Refiners == {"r1", "r2"}

----------------------------------------------------------------------------
(* The run controller: run_pipeline (lines 337-359), one action per stage *)

\* what load_transcript can give for a path: None, an empty text, a text
LoadOutcomes(f) == IF f \in files THEN {"fail", "empty", "text"} ELSE {"fail"}

NoRun ==
    [vid |-> <<>>, plan |-> None, research |-> <<>>, brief |-> None,
     entities |-> EmptyList, batch |-> <<>>, saved |-> None]

\* a run that is over: only its case identifier is kept for the record
Ended(r) == [NoRun EXCEPT !.vid = r.vid]

\* lines 338-345
RunPipeline(f) ==
    /\ pc = "idle"
    /\ \A r \in Refiners : rpc[r] = "idle"
    /\ runs < MaxRuns
    /\ runs' = runs + 1
    /\ \E load \in LoadOutcomes(f) :
        /\ run' = [NoRun EXCEPT !.vid = SplitFirst(f)]
        /\ IF load = "text"
           THEN pc' = "strategist" /\ trace' = <<"load">>
           ELSE pc' = "done" /\ trace' = <<"load_" \o load, "return">>
    /\ UNCHANGED <<graphVars, files, history, neo4jOn, refVars, scoutVars, archVars, normVars, syncVars>>

\* main() with a path argument (lines 362-364)
RunExplicit == \E f \in files \cup {MissingFile} : RunPipeline(f)

\* main() without one: a choice among get_available_transcripts (lines 369-384)
RunSelected == \E a \in get_available_transcripts(files, history) : RunPipeline(a[2])

\* line 348; "strategist_error" is the message of line 158
Strategist ==
    /\ pc = "strategist"
    /\ \E resp \in StrategistResponses, logOK \in BOOLEAN :
        /\ run' = [run EXCEPT !.plan = identify_gaps(resp, logOK)]
        /\ trace' = IF StrategistFails(resp, logOK)
                     THEN trace \o <<"strategist", "strategist_error">>
                     ELSE Append(trace, "strategist")
    /\ pc' = "scout"
    /\ UNCHANGED <<graphVars, files, history, neo4jOn, runs, refVars, scoutVars, archVars, normVars, syncVars>>

\* line 351; an exception of the Scout ends the run
Scout ==
    /\ pc = "scout"
    /\ \E os \in [1..ScoutCount(run.plan) -> ReqOutcomes], logOK \in BOOLEAN :
        LET r == execute_research_plan(run.plan, os, logOK)
            reqs == [i \in 1..Len(r.requests) |-> "request"]
        IN IF r.raised
           THEN /\ pc' = "done"
                /\ run' = Ended(run)
                /\ trace' = trace \o reqs \o <<"raise">>
           ELSE /\ pc' = "architect"
                /\ run' = [run EXCEPT !.research = r.dossier]
                /\ trace' = trace \o reqs \o <<"scout">>
    /\ UNCHANGED <<graphVars, files, history, neo4jOn, runs, refVars, scoutVars, archVars, normVars, syncVars>>

\* a test of the brief that only None fails
BriefGivenUnlessNone(brief) == brief.t # "none"

\* line 357: if strategy_text
BriefGiven(brief) == Truthy(brief)

\* lines 354-357; run.saved is the brief file the stage left behind (briefs
\* are named *.md by the prompt and are never listed as transcripts)
Architect ==
    /\ pc = "architect"
    /\ \E resp \in ArchitectResponses, fileOK \in BOOLEAN, logOK \in BOOLEAN :
        LET r == synthesize_strategy(resp, run.vid, fileOK, logOK)
        IN IF BriefGiven(r.brief)
           THEN /\ pc' = "sync"
                /\ run' = [run EXCEPT !.plan = None, !.brief = r.brief,
                                      !.entities = r.entities, !.saved = r.saved]
                /\ trace' = Append(trace, "architect")
           ELSE /\ pc' = "done"
                /\ run' = [Ended(run) EXCEPT !.brief = r.brief, !.saved = r.saved]
                /\ trace' = trace \o <<"architect", "return">>
    /\ UNCHANGED <<graphVars, files, history, neo4jOn, runs, refVars, scoutVars, archVars, normVars, syncVars>>

\* a guard that never sees the parameters missing
SyncDisabledNever(on) == FALSE

\* line 293: NEO4J_URI or NEO4J_PASSWORD is not set
SyncDisabled(on) == ~on

\* sync_to_neo4j up to the base statement (lines 292-326)
SyncBase ==
    /\ pc = "sync"
    /\ UNCHANGED <<files, history, neo4jOn, runs, now, synced, refVars, scoutVars, archVars, normVars, syncVars>>
    /\ IF SyncDisabled(neo4jOn)
       THEN /\ pc' = "mark"
            /\ trace' = Append(trace, "sync")
            /\ UNCHANGED <<nodes, edges, run>>
       ELSE IF run.entities.t # "list"
       THEN \* len(entities), line 296, outside the try, raises for the null
            \* the Architect hands over; its other values are lists
            /\ pc' = "done"
            /\ run' = Ended(run)
            /\ trace' = trace \o <<"sync", "raise">>
            /\ UNCHANGED <<nodes, edges>>
       ELSE \E out \in {"driver_error", "base_error", "ok"} :
            IF out = "ok"
            THEN LET g == SyncBaseStmt(Graph, run.vid, run.brief.v, run.research, now)
                     batch == ValidEntities(run.entities.v)
                 IN /\ nodes' = g.nodes
                    /\ edges' = g.edges
                    /\ run' = [run EXCEPT !.batch = batch, !.entities = EmptyList,
                                          !.saved = None]
                    /\ pc' = IF batch = <<>> THEN "mark" ELSE "entities"
                    /\ trace' = trace \o <<"sync", "base">>
            ELSE /\ pc' = "mark"
                 /\ trace' = trace \o <<"sync", out>>
                 /\ UNCHANGED <<nodes, edges, run>>

\* an entity statement that is sent again after an error
SyncEntitiesRetry ==
    /\ pc = "entities"
    /\ \E dbOK \in BOOLEAN :
        IF dbOK /\ ~EntityStmtFails(run.batch)
        THEN /\ UNCHANGED <<nodes, edges, synced>>
             /\ trace' = Append(trace, "entities")
        ELSE /\ UNCHANGED <<nodes, edges, synced>>
             /\ trace' = trace \o <<"entities_error", "entities_error">>
    /\ pc' = "mark"
    /\ UNCHANGED <<files, history, neo4jOn, run, runs, now, refVars, scoutVars, archVars, normVars, syncVars>>

\* the entity batch statement (line 328) and the end of sync_to_neo4j
SyncEntities ==
    /\ pc = "entities"
    /\ \E dbOK \in BOOLEAN :
        IF dbOK /\ ~EntityStmtFails(run.batch)
        THEN LET g == SyncEntitiesStmt(Graph, run.vid, run.batch)
             IN /\ nodes' = g.nodes
                /\ edges' = g.edges
                /\ synced' = synced \cup
                      {[vid |-> run.vid, name |-> Field(run.batch[i], "name").v,
                        detail |-> Field(run.batch[i], "detail").v] : i \in 1..Len(run.batch)}
                /\ trace' = Append(trace, "entities")
        ELSE /\ UNCHANGED <<nodes, edges, synced>>
             /\ trace' = Append(trace, "entities_error")
    /\ pc' = "mark"
    /\ UNCHANGED <<files, history, neo4jOn, run, runs, now, refVars, scoutVars, archVars, normVars, syncVars>>

\* a history mark that is left out after a sync that met an error
MarkCompleteIfClean ==
    /\ pc = "mark"
    /\ history' = IF \E i \in 1..Len(trace) : trace[i] = "entities_error"
                  THEN history
                  ELSE mark_as_complete(history, run.vid)
    /\ pc' = "done"
    /\ run' = Ended(run)
    /\ trace' = trace \o <<"history", "return">>
    /\ UNCHANGED <<graphVars, files, neo4jOn, runs, refVars, scoutVars, archVars, normVars, syncVars>>

\* a history mark that is written only for an identifier the file lacks
MarkCompleteOnce ==
    /\ pc = "mark"
    /\ history' = IF run.vid \in load_history(history)
                  THEN history
                  ELSE mark_as_complete(history, run.vid)
    /\ pc' = "done"
    /\ run' = Ended(run)
    /\ trace' = trace \o <<"history", "return">>
    /\ UNCHANGED <<graphVars, files, neo4jOn, runs, refVars, scoutVars, archVars, normVars, syncVars>>

\* line 359
MarkComplete ==
    /\ pc = "mark"
    /\ history' = mark_as_complete(history, run.vid)
    /\ pc' = "done"
    /\ run' = Ended(run)
    /\ trace' = trace \o <<"history", "return">>
    /\ UNCHANGED <<graphVars, files, neo4jOn, runs, refVars, scoutVars, archVars, normVars, syncVars>>

\* the process ends
PipelineExit ==
    /\ pc = "done"
    /\ pc' = "idle"
    /\ run' = NoRun
    /\ trace' = <<>>
    /\ UNCHANGED <<graphVars, files, history, neo4jOn, runs, refVars, scoutVars, archVars, normVars, syncVars>>

\* the store's clock moves on
Tick ==
    /\ now < MaxClock
    /\ now' = now + 1
    /\ UNCHANGED <<nodes, edges, synced, pipeVars, refVars, scoutVars, archVars, normVars, syncVars>>

----------------------------------------------------------------------------
(* The Relationship Refiner: graph_refiner.py main (lines 97-118) *)

\* lines 62-66: the Refiner's own fence stripping (two ifs, not if/elif)
refiner_clean(text) ==
    LET t0 == Strip(text)
        t1 == IF StartsWith(t0, FenceJson) THEN SubSeq(t0, 8, Len(t0)) ELSE t0
        t2 == IF StartsWith(t1, Fence) THEN SubSeq(t1, 4, Len(t1)) ELSE t1
        t3 == IF EndsWith(t2, Fence) THEN SubSeq(t2, 1, Len(t2) - 3) ELSE t2
    IN Strip(t3)

\* identify_relationships (lines 56-70): any exception gives []
identify_relationships(resp) ==
    IF resp.k # "text" THEN EmptyList
    ELSE LET p == JsonLoads(refiner_clean(resp.text))
         IN IF p.ok THEN p.v ELSE EmptyList

RECURSIVE SetToSeq(_)
SetToSeq(S) ==
    IF S = {} THEN <<>> ELSE LET x == CHOOSE y \in S : TRUE IN <<x>> \o SetToSeq(S \ {x})

\* what `for r in relationships` walks through: the elements of a list, the
\* keys of a dict
RelItems(rels) ==
    IF rels.t = "list" THEN rels.v
    ELSE LET ks == SetToSeq(DOMAIN rels.v) IN [i \in 1..Len(ks) |-> Str(<<ks[i]>>)]

\* log: how each triple statement of the apply_relationships call in
\* progress ended, in order: "ok", "error" for a triple that cannot be
\* merged, "store_error" for a store that did not take the statement
NoRef == [cands |-> <<>>, rels |-> <<>>, count |-> 0, done |-> {}, log |-> <<>>]

\* the loop goes on to the next candidate, or main returns after the last
RefinerNext(r, st) ==
    /\ rst' = [rst EXCEPT ![r] = [st EXCEPT !.cands = Tail(@), !.rels = <<>>, !.log = <<>>]]
    /\ rpc' = [rpc EXCEPT ![r] = IF Len(st.cands) > 1 THEN "identify" ELSE "done"]

\* an exception reaches the handler of line 117
RefinerAbort(r) ==
    /\ rst' = [rst EXCEPT ![r] = [@ EXCEPT !.cands = <<>>, !.rels = <<>>, !.log = <<>>]]
    /\ rpc' = [rpc EXCEPT ![r] = "done"]

\* lines 99-107: connect and select the candidates
RefinerMain(r) ==
    /\ rpc[r] = "idle"
    /\ pc = "idle"
    /\ rruns < MaxRefRuns
    /\ rruns' = rruns + 1
    /\ \E connected \in BOOLEAN :
        IF connected
        THEN \E c \in get_unrefined_strategies(Graph) :
                /\ rst' = [rst EXCEPT ![r] = [NoRef EXCEPT !.cands = c]]
                /\ rpc' = [rpc EXCEPT ![r] = IF c = <<>> THEN "done" ELSE "identify"]
        ELSE /\ rst' = [rst EXCEPT ![r] = NoRef]
             /\ rpc' = [rpc EXCEPT ![r] = "done"]
    /\ UNCHANGED <<graphVars, pipeVars, scoutVars, archVars, normVars, syncVars>>

\* lines 110-115: the model call for the first remaining candidate, its
\* response one of resps
RefinerIdentifyOf(r, resps) ==
    /\ rpc[r] = "identify"
    /\ \E resp \in resps :
        LET rels == identify_relationships(resp)
            st == rst[r]
        IN IF ~Truthy(rels)
           THEN RefinerNext(r, [st EXCEPT !.done = @ \cup {Head(st.cands).id}])
           ELSE IF rels.t \notin {"list", "dict"}
           THEN RefinerAbort(r)
           ELSE /\ rst' = [rst EXCEPT ![r] = [st EXCEPT !.rels = RelItems(rels), !.count = 0,
                                                        !.log = <<>>]]
                /\ rpc' = [rpc EXCEPT ![r] = "apply"]
    /\ UNCHANGED <<graphVars, pipeVars, rruns, scoutVars, archVars, normVars, syncVars>>

RefinerIdentify(r) == RefinerIdentifyOf(r, RefinerResponses)

\* a loop that a failed triple ends
RefinerApplyAbort(r) ==
    /\ rpc[r] = "apply"
    /\ rst[r].rels # <<>>
    /\ \E dbOK \in BOOLEAN :
        LET t == Head(rst[r].rels)
        IN IF dbOK /\ ~TripleFails(t)
           THEN LET g == TripleStmt(Graph, t)
                IN /\ nodes' = g.nodes
                   /\ edges' = g.edges
                   /\ rst' = [rst EXCEPT ![r].rels = Tail(@), ![r].count = @ + 1,
                                         ![r].log = Append(@, "ok")]
                   /\ UNCHANGED rpc
           ELSE /\ UNCHANGED <<nodes, edges>>
                /\ RefinerAbort(r)
    /\ UNCHANGED <<now, synced, pipeVars, rruns, scoutVars, archVars, normVars, syncVars>>

\* apply_relationships, one pass of its loop (lines 74-86), the store
\* taking the statement or not as oks allows
RefinerApplyOf(r, oks) ==
    /\ rpc[r] = "apply"
    /\ rst[r].rels # <<>>
    /\ \E dbOK \in oks :
        LET t == Head(rst[r].rels)
        IN IF dbOK /\ ~TripleFails(t)
           THEN LET g == TripleStmt(Graph, t)
                IN /\ nodes' = g.nodes
                   /\ edges' = g.edges
                   /\ rst' = [rst EXCEPT ![r].rels = Tail(@), ![r].count = @ + 1,
                                         ![r].log = Append(@, "ok")]
           ELSE /\ UNCHANGED <<nodes, edges>>
                /\ rst' = [rst EXCEPT ![r].rels = Tail(@),
                                      ![r].log = Append(@, IF TripleFails(t) THEN "error"
                                                           ELSE "store_error")]
    /\ UNCHANGED <<now, synced, pipeVars, rpc, rruns, scoutVars, archVars, normVars, syncVars>>

RefinerApply(r) == RefinerApplyOf(r, BOOLEAN)

\* apply_relationships after its loop (lines 88-95): the stamp, the store
\* taking the statement or not as oks allows
RefinerStampOf(r, oks) ==
    /\ rpc[r] = "apply"
    /\ rst[r].rels = <<>>
    /\ \E dbOK \in oks :
        IF dbOK
        THEN LET sid == Head(rst[r].cands).id
                 g == StampStmt(Graph, sid, now)
             IN /\ nodes' = g.nodes
                /\ edges' = g.edges
                /\ RefinerNext(r, [rst[r] EXCEPT !.done = @ \cup {sid}])
        ELSE /\ UNCHANGED <<nodes, edges>>
             /\ RefinerAbort(r)
    /\ UNCHANGED <<now, synced, pipeVars, rruns, scoutVars, archVars, normVars, syncVars>>

RefinerStamp(r) == RefinerStampOf(r, BOOLEAN)

\* main run once more on a store that answers (lines 99-107), however many
\* runs came before
RefinerAgain(r) ==
    /\ rpc[r] = "idle"
    /\ pc = "idle"
    /\ \E c \in get_unrefined_strategies(Graph) :
        /\ rst' = [rst EXCEPT ![r] = [NoRef EXCEPT !.cands = c]]
        /\ rpc' = [rpc EXCEPT ![r] = IF c = <<>> THEN "done" ELSE "identify"]
    /\ UNCHANGED <<graphVars, pipeVars, rruns, scoutVars, archVars, normVars, syncVars>>

\* the process ends
RefinerExit(r) ==
    /\ rpc[r] = "done"
    /\ rpc' = [rpc EXCEPT ![r] = "idle"]
    /\ rst' = [rst EXCEPT ![r] = NoRef]
    /\ UNCHANGED <<graphVars, pipeVars, rruns, scoutVars, archVars, normVars, syncVars>>

----------------------------------------------------------------------------
(* The run controller: knowledge_processor.py run any number of times,     *)
(* stage by stage, over the graph store and the history file.              *)

NoScoutIn == [plan |-> None, logOK |-> TRUE]
NoScoutOut == [pc |-> "off", i |-> 0, summary |-> <<>>, requests |-> <<>>,
               log |-> <<>>, dossier |-> <<>>]
NoArchIn == [resp |-> GenExc, vid |-> <<>>, fileOK |-> TRUE, logOK |-> TRUE]
NoArchOut == [pc |-> "off"]
NoNormIn == [kind |-> "none"]
NoNormOut == [pc |-> "off"]

\* the concurrent invocations of the Graph Synchronizer
Syncs == {"s1", "s2"}
NoSync ==
    [vid |-> <<>>, strategy |-> <<>>, research |-> <<>>, entities |-> <<>>, batch |-> <<>>,
     t |-> 0, log |-> <<>>]

Init ==
    /\ nodes = <<>>
    /\ edges = {}
    /\ now = 0
    /\ synced = {}
    /\ files \in Dirs
    /\ history = <<>>
    /\ neo4jOn \in BOOLEAN
    /\ pc = "idle"
    /\ run = NoRun
    /\ trace = <<>>
    /\ runs = 0
    /\ rpc = [r \in Refiners |-> "idle"]
    /\ rst = [r \in Refiners |-> NoRef]
    /\ rruns = 0
    /\ sIn = NoScoutIn
    /\ sOut = NoScoutOut
    /\ aIn = NoArchIn
    /\ aOut = NoArchOut
    /\ nIn = NoNormIn
    /\ nOut = NoNormOut
    /\ syncPc = [i \in Syncs |-> "off"]
    /\ syncSt = [i \in Syncs |-> NoSync]

Next ==
    \/ RunExplicit
    \/ RunSelected
    \/ Strategist
    \/ Scout
    \/ Architect
    \/ SyncBase
    \/ SyncEntities
    \/ MarkComplete
    \/ PipelineExit
    \/ Tick

Spec == Init /\ [][Next]_vars

\* events of the current run
Has(e) == \E i \in 1..Len(trace) : trace[i] = e

\* the base statement of the current sync_to_neo4j call has committed
BaseCommitted == pc \in {"entities", "mark"} /\ Has("base")

\* C1: after a sync_to_neo4j call has committed its base statement, whatever
\* earlier calls left in the graph, there is exactly one Video, one Strategy
\* and one Research node for the case id, and the Strategy and Research
\* contents are those of this call.
C1_SyncIdempotent ==
    BaseCommitted =>
        LET vs == Match(Graph, "Video", "id", run.vid)
            ss == Match(Graph, "Strategy", "id", StratId(run.vid))
            rs == Match(Graph, "Research", "id", ResId(run.vid))
        IN /\ Cardinality(vs) = 1 /\ Cardinality(ss) = 1 /\ Cardinality(rs) = 1
           /\ \A x \in ss : nodes[x].props.content = run.brief.v
           /\ \A x \in rs : nodes[x].props.content = run.research

\* C1 witness: the second call for case "a" has overwritten the brief that
\* the first call stored with the entities of "{full}".
C1_Witness ==
    /\ BaseCommitted
    /\ run.vid = <<"a">>
    /\ run.brief = Str(Brief2)
    /\ [vid |-> <<"a">>, name |-> Claude, detail |-> <<"d1">>] \in synced
    /\ \E i \in 1..Len(history) : history[i] = <<"a">>
    /\ \A x \in Match(Graph, "Strategy", "id", StratId(<<"a">>)) :
            nodes[x].props.content = Brief2

\* the run ended before the Graph Synchronizer: the transcript did not load
\* or the Architect returned no brief
ShortCircuit ==
    \/ trace[1] \in {"load_fail", "load_empty"}
    \/ Len(trace) >= 2 /\ trace[Len(trace) - 1] = "architect" /\ trace[Len(trace)] = "return"

\* C6: a run that is over short-circuited without graph write or history
\* append exactly when the load failed or the Architect gave no brief; every
\* other run attempted the sync and appended the history after it.
C6_Original ==
    pc = "done" =>
        IF ShortCircuit
        THEN ~Has("sync") /\ ~Has("history")
        ELSE \E i, j \in 1..Len(trace) : i < j /\ trace[i] = "sync" /\ trace[j] = "history"

\* a graph-store error happened inside the sync of the current run
SyncError == Has("driver_error") \/ Has("base_error") \/ Has("entities_error")

\* C7: after a run whose sync met a graph-store error, no exception left the
\* sync, the history has the case id, and the transcript is no longer offered.
C7_Original ==
    pc = "done" /\ SyncError =>
        /\ ~Has("raise")
        /\ Has("history")
        /\ \A a \in get_available_transcripts(files, history) : a[1] # run.vid

\* C8: no transcript whose id was marked complete is returned by
\* get_available_transcripts.
C8_Original ==
    \A a \in get_available_transcripts(files, history) :
        \A i \in 1..Len(history) : a[1] # history[i]

\* a record that carries both a name and a type
HasBoth(e) == e.t = "dict" /\ "name" \in DOMAIN e.v /\ "type" \in DOMAIN e.v

\* the Entity nodes among ns, the MENTIONS relationships among es
EntityIdx(ns) == {i \in 1..Len(ns) : ns[i].label = "Entity"}
Mentions(es) == {x \in es : x.type = <<"MENTIONS">>}

\* C13: the entity statement is sent exactly when some record of the list
\* carries both name and type, its batch is those records in order, and what
\* it adds to the graph comes from the batch; a sync_to_neo4j call that does
\* not send it adds no Entity node and no MENTIONS edge.
C13_EntityFilter ==
    [][/\ pc = "sync" /\ pc' = "entities" =>
            /\ run'.batch = SelectSeq(run.entities.v, HasBoth)
            /\ run'.batch # <<>>
       /\ pc = "sync" /\ run.entities.t = "list"
             /\ SelectSeq(run.entities.v, HasBoth) = <<>> => pc' # "entities"
       /\ pc = "sync" =>
            /\ EntityIdx(nodes') = EntityIdx(nodes)
            /\ Mentions(edges') = Mentions(edges)
       /\ pc = "entities" =>
            /\ \A i \in EntityIdx(nodes') \ EntityIdx(nodes) :
                    \E k \in 1..Len(run.batch) : nodes'[i].props.name = run.batch[k].v["name"].v
            /\ \A x \in Mentions(edges') \ Mentions(edges) :
                    \E k \in 1..Len(run.batch) :
                        /\ HasBoth(run.batch[k])
                        /\ nodes'[x.to].props.name = run.batch[k].v["name"].v
                        /\ x.props.detail = run.batch[k].v["detail"].v]_vars

\* C13 witness: the first sync of case "b" with the entities of "{plain}",
\* one record with both keys, one without type, one without name, has put
\* Claude in the graph and nothing else.
C13_Witness ==
    /\ pc = "mark" /\ Has("entities")
    /\ run.vid = <<"b">>
    /\ synced = {[vid |-> <<"b">>, name |-> Claude, detail |-> <<"d2">>]}
    /\ {nodes[i].props.name : i \in EntityIdx(nodes)} = {Claude}
    /\ Cardinality(Mentions(edges)) = 1

\* C13 witness of the empty batch: a sync whose filtered batch was empty went
\* from the base statement to the history mark, the graph holding no Entity.
C13_WitnessEmpty ==
    /\ pc = "mark" /\ Has("base") /\ ~Has("entities") /\ ~Has("entities_error")
    /\ EntityIdx(nodes) = {}

\* C14: the Strategist stage never ends the run; when its model call, the
\* cleaning and parsing of the response or its debug record fails, the plan
\* it hands over is the empty question list, the Scout that follows sends no
\* request and returns the empty dossier, and the run moves on to the
\* Architect.
C14_StrategistDegrades ==
    [][/\ pc = "strategist" /\ trace' # trace =>
            /\ pc' = "scout"
            /\ trace'[Len(trace')] = "strategist_error" => run'.plan = EmptyPlan
       /\ pc = "scout" /\ trace' # trace /\ trace[Len(trace)] = "strategist_error" =>
            /\ pc' = "architect"
            /\ trace' = Append(trace, "scout")
            /\ run'.research = <<>>]_vars

\* C14 witness: a run whose Strategist failed has passed the Scout without a
\* request and with an empty dossier, and its Architect has been called.
C14_Witness ==
    /\ trace = <<"load", "strategist", "strategist_error", "scout", "architect">>
    /\ pc = "sync"
    /\ run.research = <<>>

\* C16: without the connection parameters the sync stage of a run is one
\* step that connects to nothing and sends no statement ("sync" is its only
\* event), leaves the graph as it was and does not raise; the run goes on to
\* the history append, which adds the line of the case.
C16_SyncDisabledNoOp ==
    [][/\ pc = "sync" /\ ~neo4jOn /\ trace' # trace =>
            /\ pc' = "mark"
            /\ trace' = Append(trace, "sync")
            /\ nodes' = nodes /\ edges' = edges
       /\ pc = "mark" /\ ~neo4jOn /\ trace' # trace =>
            /\ history' = Append(history, run.vid)
            /\ trace' = trace \o <<"history", "return">>]_vars

\* C16 witness: a run without connection parameters is over, its sync stage
\* having sent nothing, the graph empty and the case in the history.
C16_Witness ==
    /\ ~neo4jOn /\ pc = "done"
    /\ run.vid = <<"a">>
    /\ trace = <<"load", "strategist", "request", "scout", "architect", "sync", "history", "return">>
    /\ nodes = <<>> /\ edges = {}
    /\ history = << <<"a">> >>

\* the stage an event of a run belongs to
StageOf(e) ==
    CASE e \in {"load", "load_fail", "load_empty"} -> 0
      [] e \in {"strategist", "strategist_error"} -> 1
      [] e \in {"request", "scout"} -> 2
      [] e = "architect" -> 3
      [] e \in {"sync", "driver_error", "base", "base_error"} -> 4
      [] e \in {"entities", "entities_error"} -> 5
      [] e = "history" -> 6
      [] OTHER -> 7

\* how often the run has seen one of the events es
Count(es) == Cardinality({i \in 1..Len(trace) : trace[i] \in es})

\* C17: the events of a run come stage by stage, Strategist, Scout requests,
\* Architect, base statement, entity statement, history append, never one of
\* an earlier stage after one of a later stage; the Strategist's model call,
\* the Architect's model call, the base statement, the entity statement and
\* the history append are each attempted at most once in a run.
C17_StagesInOrder ==
    /\ \A i, j \in 1..Len(trace) : i < j => StageOf(trace[i]) <= StageOf(trace[j])
    /\ Count({"strategist"}) <= 1
    /\ Count({"scout"}) <= 1
    /\ Count({"architect"}) <= 1
    /\ Count({"sync"}) <= 1
    /\ Count({"base", "base_error", "driver_error"}) <= 1
    /\ Count({"entities", "entities_error"}) <= 1
    /\ Count({"history"}) <= 1

\* C17 witness: a run that went through every stage, a Scout request and
\* both graph statements included.
C17_Witness ==
    /\ pc = "done"
    /\ trace = <<"load", "strategist", "request", "scout", "architect", "sync", "base",
                 "entities", "history", "return">>

\* the graph statements and the history append of the current run
WroteAnything == Has("sync") \/ Has("base") \/ Has("entities") \/ Has("history")

\* C32: a run whose Architect returned the empty string as brief ends like
\* one whose Architect returned None: no sync is attempted and the history
\* is not appended, although the brief file, empty, has been written; a
\* transcript that was selectable before the run still is.
C32_EmptyBriefLikeNone ==
    [][pc = "architect" /\ pc' # pc =>
        IF run'.brief \in {None, Str(<<>>)}
        THEN /\ pc' = "done"
             /\ trace' = trace \o <<"architect", "return">>
             /\ ~WroteAnything'
             /\ nodes' = nodes /\ edges' = edges /\ history' = history
             /\ run'.brief = Str(<<>>) =>
                    /\ run'.saved.t = "dict" /\ run'.saved.v["content"] = Str(<<>>)
                    /\ run.vid \notin load_history(history) =>
                            \E a \in get_available_transcripts(files', history') :
                                a[1] = run.vid
        ELSE pc' = "sync"]_vars

\* C32 witness: the Architect's model answered {"filename": "bare.md"}; the
\* run is over with the brief "", the file a_bare.md written empty, nothing
\* in the history, and the transcript of case "a" still offered.
C32_Witness ==
    /\ pc = "done"
    /\ trace = <<"load", "strategist", "request", "scout", "architect", "return">>
    /\ run.brief = Str(<<>>)
    /\ run.saved = Dict([name |-> Str(<<"a", "_", "bare.md">>), content |-> Str(<<>>)])
    /\ history = <<>>
    /\ nodes = <<>>
    /\ <<(<<"a">>), FileA>> \in get_available_transcripts(files, history)

\* C33 as stated: whatever brief and entity list the Architect handed over,
\* a run that called sync_to_neo4j saw it return without an exception and
\* went on to the history append.
C33_Original ==
    pc = "done" /\ Has("architect") /\ Has("sync") => ~Has("raise") /\ Has("history")

\* the stages of run_pipeline after the load
Stages == {"strategist", "scout", "architect", "sync", "entities", "mark"}

\* the lines of the history that hold the identifier
LinesOf(h, video_id) == {i \in 1..Len(h) : h[i] = video_id}

\* C34 as stated: the history holds each case identifier at most once, and
\* no stage runs for a case identifier that the history holds.
C34_Original ==
    /\ \A i, j \in 1..Len(history) : history[i] = history[j] => i = j
    /\ pc \in Stages => run.vid \notin load_history(history)

\* C34 amended: only the selection reads the history, and offers no
\* transcript whose identifier is among its non-blank lines. A run for an
\* identifier that the history holds goes through its stages like any other:
\* its base statement rewrites the Video, Strategy and Research of the case,
\* and its history mark appends the identifier once more.
C34_HistoryOnlyFiltersSelection ==
    [][/\ pc = "idle" /\ pc' # "idle" =>
            \A a \in get_available_transcripts(files, history) :
                a[1] \notin load_history(history)
       /\ run.vid \in load_history(history) /\ pc = "sync" /\ trace'[Len(trace')] = "base"
            => /\ pc' \in Stages
               /\ [nodes |-> nodes', edges |-> edges'] =
                      SyncBaseStmt(Graph, run.vid, run.brief.v, run.research, now)
       /\ run.vid \in load_history(history) /\ pc = "mark" /\ pc' = "done"
            => /\ history' = Append(history, run.vid)
               /\ Cardinality(LinesOf(history', run.vid)) >= 2]_vars

\* C34 witness: the second run for case "b" is over: its base statement
\* committed, the graph has the one Strategy node of the case and the
\* history holds "b" twice.
C34_Witness ==
    /\ pc = "done" /\ runs = 2
    /\ Has("base") /\ Has("history")
    /\ history = << <<"b">>, <<"b">> >>
    /\ Cardinality(Match(Graph, "Strategy", "id", StratId(<<"b">>))) = 1

\* the transcript artifacts of the working directory, and the source
\* identifier that save_json put before the suffix of the file name
Transcripts == {f \in files : EndsWith(f, Suffix)}
SourceId(f) == SubSeq(f, 1, Len(f) - Len(Suffix))

\* C35 as stated: transcripts of different source identifiers have
\* different case identifiers, so that a transcript whose own source
\* identifier was not marked complete is still offered by the selection.
C35_Original ==
    /\ \A f1, f2 \in Transcripts :
            SourceId(f1) # SourceId(f2) => SplitFirst(f1) # SplitFirst(f2)
    /\ \A f \in Transcripts :
            SourceId(f) \notin load_history(history) =>
                \E a \in get_available_transcripts(files, history) : a[2] = f

\* every record of the batch has its Entity node in the graph, with a
\* MENTIONS relationship of its detail from the Strategy node of the case
BatchInGraph(vid, batch) ==
    \A k \in 1..Len(batch) :
        \E x \in Mentions(edges) :
            /\ x.from \in Match(Graph, "Strategy", "id", StratId(vid))
            /\ nodes[x.to].label = "Entity"
            /\ nodes[x.to].props.name = Field(batch[k], "name").v
            /\ x.props.detail = Field(batch[k], "detail").v

\* C31 as stated: whenever the case identifier is appended to the history
\* after a sync whose base statement committed, every valid entity of the
\* run is in the graph with its MENTIONS relationship.
C31_Original ==
    [][pc = "mark" /\ pc' = "done" /\ Has("base") => BatchInGraph(run.vid, run.batch)]_vars

\* C31 amended: the two statements of a sync commit one by one. An entity
\* statement that fails leaves the graph as the base statement left it, and
\* the case identifier is appended to the history all the same; the valid
\* entities of the run are all in the graph with their MENTIONS
\* relationships when the entity statement did not fail.
C31_StatementByStatement ==
    [][/\ pc = "entities" /\ pc' = "mark" /\ trace'[Len(trace')] = "entities_error"
            => nodes' = nodes /\ edges' = edges
       /\ pc = "mark" /\ pc' = "done" /\ Has("base")
            => /\ history' = Append(history, run.vid)
               /\ Has("entities_error") \/ BatchInGraph(run.vid, run.batch)]_vars

\* C31 witness: a run is over whose base statement committed and whose
\* entity statement failed: the history has the case identifier, the graph
\* has the Strategy node of the case and no MENTIONS relationship.
C31_Witness ==
    /\ pc = "done"
    /\ Has("base") /\ Has("entities_error") /\ Has("history")
    /\ history = <<run.vid>>
    /\ Match(Graph, "Strategy", "id", StratId(run.vid)) # {}
    /\ Mentions(edges) = {}

(* The graph store under both writers: pipeline runs taken in one step up  *)
(* to their call of sync_to_neo4j, then statement by statement, and the    *)
(* invocations of one Refiner.                                             *)

\* lines 338-357 of a run whose Architect returns a brief
RunToSync ==
    /\ pc = "idle"
    /\ \A r \in Refiners : rpc[r] = "idle"
    /\ runs < MaxRuns
    /\ runs + rruns < MaxOps
    /\ runs' = runs + 1
    /\ \E f \in files, resp \in GraphResponses :
        LET r == synthesize_strategy(resp, SplitFirst(f), TRUE, TRUE)
        IN /\ Truthy(r.brief)
           /\ run' = [NoRun EXCEPT !.vid = SplitFirst(f), !.brief = r.brief,
                                   !.entities = r.entities]
    /\ pc' = "sync"
    /\ trace' = <<"load", "strategist", "scout", "architect">>
    /\ UNCHANGED <<graphVars, files, history, neo4jOn, refVars, scoutVars, archVars, normVars, syncVars>>

\* an invocation of the Refiner within the budget of script runs
RefinerRun(r) == runs + rruns < MaxOps /\ RefinerMain(r)

InitGraph == Init /\ files = DirTwoVideos /\ neo4jOn

NextGraph ==
    \/ RunToSync
    \/ SyncBase
    \/ SyncEntities
    \/ MarkComplete
    \/ PipelineExit
    \/ Tick
    \/ RefinerRun("r1")
    \/ RefinerIdentify("r1")
    \/ RefinerApply("r1")
    \/ RefinerStamp("r1")
    \/ RefinerExit("r1")

SpecGraph == InitGraph /\ [][NextGraph]_vars

\* the MENTIONS relationships into the nodes es
MentionsInto(es) == {x \in edges : x.type = <<"MENTIONS">> /\ x.to \in es}

EntityNames == {nodes[i].props.name : i \in {j \in 1..Len(nodes) : nodes[j].label = "Entity"}}

\* C2: whatever the pipeline and the Refiner have merged, there is one Entity
\* node per name, and its incoming MENTIONS edges are those of the synced
\* rows: one from the Strategy node of each video that mentioned the name.
C2_OneEntityPerName ==
    \A n \in EntityNames :
        LET es == Match(Graph, "Entity", "name", n)
        IN /\ Cardinality(es) = 1
           /\ MentionsInto(es) =
                UNION {{[type |-> <<"MENTIONS">>, from |-> s, to |-> e,
                         props |-> [detail |-> row.detail]] :
                            e \in es, s \in Match(Graph, "Strategy", "id", StratId(row.vid))} :
                       row \in {x \in synced : x.name = n}}

\* C2 witness: videos "a" and "b" both mentioned Claude; the one Claude node
\* has two incoming MENTIONS edges, from the two Strategy nodes.
C2_Witness ==
    LET es == Match(Graph, "Entity", "name", Claude)
    IN /\ Cardinality(es) = 1
       /\ Cardinality(MentionsInto(es)) = 2
       /\ {nodes[x.from].props.id : x \in MentionsInto(es)} = {StratId(<<"a">>), StratId(<<"b">>)}

\* C4: every Strategy a Refiner invocation has selected and not yet worked
\* on, the one about to be sent to the model included, has no REFINED_BY edge.
C4_NeverSelectsRefined ==
    \A r \in Refiners : \A i \in 1..Len(rst[r].cands) :
        \A s \in Match(Graph, "Strategy", "id", rst[r].cands[i].id) : ~Refined(Graph, s)

\* C4 witness: an invocation is about to send a Strategy to the model while
\* another Strategy carries the stamp of an earlier invocation.
C4_Witness ==
    /\ rpc["r1"] = "identify"
    /\ rst["r1"].cands # <<>>
    /\ \E s \in 1..Len(nodes) : nodes[s].label = "Strategy" /\ Refined(Graph, s)

\* C5: every Strategy an invocation has finished with, the ones that gave
\* no triple included, has a REFINED_BY edge.
C5_Original ==
    \A r \in Refiners : \A id \in rst[r].done :
        \E s \in Match(Graph, "Strategy", "id", id) : Refined(Graph, s)

\* the property a node is merged by
KeyOf(n) ==
    CASE n.label = "Entity" -> n.props.name
      [] n.label = "RefinerLog" -> n.props.timestamp
      [] OTHER -> n.props.id

\* C18: no step of a pipeline run or of the Refiner takes a node or a
\* relationship away: every node stays, with its label and the property it
\* is merged by, every relationship stays as it is, and a RefinerLog node
\* keeps all its properties.
C18_GraphOnlyGrows ==
    [][/\ Len(nodes') >= Len(nodes)
       /\ \A i \in 1..Len(nodes) :
            /\ nodes'[i].label = nodes[i].label
            /\ KeyOf(nodes'[i]) = KeyOf(nodes[i])
            /\ nodes[i].label = "RefinerLog" => nodes'[i] = nodes[i]
       /\ edges \subseteq edges']_vars

\* C18 witness: the graph holds nodes of the five labels and a stamp, and a
\* second pipeline run has sent both its statements over it.
C18_Witness ==
    /\ {nodes[i].label : i \in 1..Len(nodes)} =
            {"Video", "Strategy", "Research", "Entity", "RefinerLog"}
    /\ \E e \in edges : e.type = <<"REFINED_BY">>
    /\ \E e \in edges : e.type = <<"MENTIONS">>
    /\ runs = 2 /\ pc = "mark" /\ Has("entities")

\* the REFINED_BY relationships that leave the node s
StampsOf(s) == {e \in edges : e.type = <<"REFINED_BY">> /\ e.from = s}

\* C20: over the invocations of the Refiner, one after the other and with
\* pipeline runs between them, every Strategy node has at most one outgoing
\* REFINED_BY relationship.
C20_OneStampPerStrategy ==
    \A s \in 1..Len(nodes) : nodes[s].label = "Strategy" => Cardinality(StampsOf(s)) <= 1

\* C20 witness: a second invocation, started after the clock moved on, found
\* the Strategy stamped by the first one and selected nothing.
C20_Witness ==
    /\ rruns = 2 /\ rpc["r1"] = "done" /\ now = 1
    /\ \E s \in 1..Len(nodes) :
            /\ nodes[s].label = "Strategy"
            /\ \E e \in StampsOf(s) : nodes[e.to].props.timestamp = 0
    /\ \A s \in 1..Len(nodes) : nodes[s].label = "Strategy" => Cardinality(StampsOf(s)) = 1

\* the last row of the batch that names nm
LastRow(batch, nm) ==
    batch[CHOOSE k \in 1..Len(batch) :
            /\ batch[k].v["name"].v = nm
            /\ \A j \in (k + 1)..Len(batch) : batch[j].v["name"].v # nm]

\* C25: after an entity statement that took effect, every name of its batch
\* has one Entity node, whatever was there before, and the type of that node
\* is the type of the last row of the batch that names it.
C25_LastWriterWins ==
    [][pc = "entities" /\ trace' = Append(trace, "entities") =>
        \A k \in 1..Len(run.batch) :
            LET nm == run.batch[k].v["name"].v
                es == Match([nodes |-> nodes', edges |-> edges'], "Entity", "name", nm)
            IN /\ Cardinality(es) = 1
               /\ \A i \in es :
                    IF Field(LastRow(run.batch, nm), "type").t = "none"
                    THEN "type" \notin DOMAIN nodes'[i].props
                    ELSE nodes'[i].props.type = Field(LastRow(run.batch, nm), "type").v]_vars

\* C25 witness: Claude, synced as a Tool by an earlier run of case "b", has
\* been mentioned as a Model by the run of case "a": one node, typed Model.
C25_Witness ==
    /\ pc = "mark" /\ Has("entities")
    /\ run.vid = <<"a">>
    /\ run.batch = <<EntClaudeModel, EntCursor>>
    /\ [vid |-> <<"b">>, name |-> Claude, detail |-> <<"d2">>] \in synced
    /\ \A i \in Match(Graph, "Entity", "name", Claude) : nodes[i].props.type = Model
    /\ Cardinality(Match(Graph, "Entity", "name", Claude)) = 1

\* C27: whatever runs have synced, a case run again with another detail for
\* an entity included, a Strategy node and an Entity node have at most one
\* MENTIONS relationship between them.
C27_Original ==
    \A x, y \in Mentions(edges) : x.from = y.from /\ x.to = y.to => x = y

\* C30: a Strategy that has a REFINED_BY relationship has one after every
\* step; the base statement of a later run of its case gives it the new
\* brief as content and leaves the relationship; and an invocation of the
\* Refiner that starts selects no Strategy that has one, so that the new
\* text is not among the texts it reads.
C30_RefinedAbsorbing ==
    [][/\ \A s \in 1..Len(nodes) :
            nodes[s].label = "Strategy" /\ Refined(Graph, s)
                => Refined([nodes |-> nodes', edges |-> edges'], s)
       /\ pc = "sync" /\ pc' \in {"entities", "mark"} /\ neo4jOn
             /\ trace' = trace \o <<"sync", "base">> =>
            \A s \in Match(Graph, "Strategy", "id", StratId(run.vid)) :
                /\ nodes'[s].props.content = run.brief.v
                /\ StampsOf(s) = {e \in edges' : e.type = <<"REFINED_BY">> /\ e.from = s}
       /\ \A r \in Refiners : rpc[r] = "idle" /\ rpc'[r] # "idle" =>
            \A k \in 1..Len(rst'[r].cands) :
                \A s \in Match(Graph, "Strategy", "id", rst'[r].cands[k].id) :
                    /\ ~Refined(Graph, s)
                    /\ rst'[r].cands[k].text = nodes[s].props.content]_vars

\* C30 witness: the Strategy of case "a", stamped after a first run whose
\* brief was the second one, has the content of a later run and its stamp.
C30_Witness ==
    /\ runs = 2 /\ pc = "mark" /\ Has("base")
    /\ run.vid = <<"a">>
    /\ [vid |-> <<"a">>, name |-> Claude, detail |-> <<"d2">>] \in synced
    /\ \E s \in Match(Graph, "Strategy", "id", StratId(<<"a">>)) :
            /\ nodes[s].props.content # Brief2
            /\ Refined(Graph, s)

----------------------------------------------------------------------------
(* The Scout alone: one call of execute_research_plan, request by request  *)

MaxQuestions == 3

QPool == <<"Cost?", "Implementation?", "Limits?", "Latency?", "Lock-in?">>

\* the first n questions of the pool, as the model emits them
Questions(n) == List([i \in 1..n |-> Str(<<QPool[i]>>)])

\* the plans a Strategist can hand over: the wrapped schema, a bare list,
\* the older "questions" key, and values of the wrong type
ScoutPlans ==
    {Dict([research_questions |-> Questions(n)]) : n \in 0..MaxQuestions}
    \cup {Questions(n) : n \in 0..MaxQuestions}
    \cup {Dict([questions |-> Questions(n)]) : n \in 1..MaxQuestions}
    \cup {Num(5), None, Dict([research_questions |-> Num(5)])}

InitScout ==
    /\ nodes = <<>> /\ edges = {} /\ now = 0 /\ synced = {}
    /\ files = DirTwoVideos /\ history = <<>> /\ neo4jOn = TRUE
    /\ pc = "idle" /\ run = NoRun /\ trace = <<>> /\ runs = 0
    /\ rpc = [r \in Refiners |-> "idle"]
    /\ rst = [r \in Refiners |-> NoRef]
    /\ rruns = 0
    /\ sIn \in [plan : ScoutPlans, logOK : BOOLEAN]
    /\ sOut = [NoScoutOut EXCEPT !.pc = "start"]
    /\ aIn = NoArchIn
    /\ aOut = NoArchOut
    /\ nIn = NoNormIn
    /\ nOut = NoNormOut
    /\ syncPc = [i \in Syncs |-> "off"]
    /\ syncSt = [i \in Syncs |-> NoSync]

\* lines 163-173
ScoutEnter ==
    /\ sOut.pc = "start"
    /\ LET sq == ScoutQueries(sIn.plan)
       IN sOut' =
            IF sq.ret THEN [sOut EXCEPT !.pc = "returned"]
            ELSE IF ~ScoutSized(sq.queries) THEN [sOut EXCEPT !.pc = "raised"]
            ELSE [sOut EXCEPT !.pc = "loop", !.i = 1]
    /\ UNCHANGED <<graphVars, pipeVars, refVars, sIn, archVars, normVars, syncVars>>

\* a loop that sends a failed request a second time
ScoutRequestRetry ==
    /\ sOut.pc = "loop"
    /\ LET qs == ScoutQueries(sIn.plan).queries.v
       IN /\ sOut.i <= Len(qs)
          /\ \E o \in ReqOutcomes :
                sOut' = [sOut EXCEPT
                            !.i = @ + 1,
                            !.requests = IF o.k = "ok" THEN Append(@, StrOf(qs[sOut.i]))
                                         ELSE @ \o <<StrOf(qs[sOut.i]), StrOf(qs[sOut.i])>>,
                            !.log = IF o.k = "ok" THEN Append(@, o.k) ELSE @ \o <<o.k, o.k>>,
                            !.summary = @ \o ScoutBlock(qs[sOut.i], o)]
    /\ UNCHANGED <<graphVars, pipeVars, refVars, sIn, archVars, normVars, syncVars>>

\* one pass of the loop of lines 181-203
ScoutRequest ==
    /\ sOut.pc = "loop"
    /\ LET qs == ScoutQueries(sIn.plan).queries.v
       IN /\ sOut.i <= Len(qs)
          /\ \E o \in ReqOutcomes :
                sOut' = [sOut EXCEPT
                            !.i = @ + 1,
                            !.requests = Append(@, StrOf(qs[sOut.i])),
                            !.log = Append(@, o.k),
                            !.summary = @ \o ScoutBlock(qs[sOut.i], o)]
    /\ UNCHANGED <<graphVars, pipeVars, refVars, sIn, archVars, normVars, syncVars>>

\* lines 205-207
ScoutFinish ==
    /\ sOut.pc = "loop"
    /\ sOut.i > Len(ScoutQueries(sIn.plan).queries.v)
    /\ sOut' = IF sIn.logOK
               THEN [sOut EXCEPT !.pc = "returned", !.dossier = Join(DossierSep, sOut.summary)]
               ELSE [sOut EXCEPT !.pc = "raised"]
    /\ UNCHANGED <<graphVars, pipeVars, refVars, sIn, archVars, normVars, syncVars>>

NextScout == ScoutEnter \/ ScoutRequest \/ ScoutFinish

SpecScout == InitScout /\ [][NextScout]_vars

\* the questions of the call in progress
ScoutQs == ScoutQueries(sIn.plan).queries.v

\* the block of one question inside a dossier
HasBlock(dossier, q) == \E i \in 1..Len(dossier) : StartsWith(dossier[i], <<"Q: ">> \o StrOf(q))

\* C3: a dossier returned for a non-empty question list holds a "Q:" block
\* for every question of the list, the failed requests included.
C3_BlockPerQuestion ==
    sOut.pc = "returned" /\ ~ScoutQueries(sIn.plan).ret
        => \A i \in 1..Len(ScoutQs) : HasBlock(sOut.summary, ScoutQs[i])

\* the requests for the first n questions of the call, in list order
RequestsFor(n) == [j \in 1..n |-> StrOf(ScoutQs[j])]

\* C15: a call of execute_research_plan over n questions sends one request
\* per question in list order: inside the loop the requests sent so far are
\* those of the questions already passed, each with its outcome, and a call
\* that has left the loop has sent exactly n, whatever the outcomes were; a
\* call that returns before the loop has sent none.
C15_OneRequestPerQuestion ==
    /\ Len(sOut.log) = Len(sOut.requests)
    /\ sOut.pc = "loop" => sOut.requests = RequestsFor(sOut.i - 1)
    /\ sOut.pc \in {"returned", "raised"} =>
            IF ScoutQueries(sIn.plan).ret \/ ~ScoutSized(ScoutQueries(sIn.plan).queries)
            THEN sOut.requests = <<>>
            ELSE sOut.requests = RequestsFor(Len(ScoutQs))

\* C15 witness: a call over three questions whose second request failed with
\* a status and whose third raised has sent three requests and returned.
C15_Witness ==
    /\ sOut.pc = "returned"
    /\ sIn.plan = Dict([research_questions |-> Questions(3)])
    /\ sOut.log = <<"ok", "http", "exc">>
    /\ sOut.requests = << <<"Cost?">>, <<"Implementation?">>, <<"Limits?">> >>

\* how often the token tok occurs in the text s
Occurrences(s, tok) == Cardinality({k \in 1..Len(s) : s[k] = tok})

\* the question lists a Strategist response can carry
QuestionDocs == {"{rq0}", "{rq1}", "{rq2}", "{rq3}"}

\* the dossier is one block "Q: q\nA: ..." per question of qs, in order,
\* with the separator between the blocks
BlockPerQuestion(qs) ==
    /\ Len(sOut.summary) = Len(qs)
    /\ \A i \in 1..Len(qs) :
            StartsWith(sOut.summary[i], <<"Q: ">> \o qs[i].v \o <<"\nA: ">>)
    /\ sOut.dossier = Join(DossierSep, sOut.summary)
    /\ Occurrences(sOut.dossier, "Q: ") = Len(qs)
    /\ Occurrences(sOut.dossier, "\n---\n") = IF qs = <<>> THEN 0 ELSE Len(qs) - 1

\* C26: when the plan of the call is what the Strategist makes of a model
\* response {research_questions: [q1..qn]}, the requests of the call are for
\* exactly those questions in order, and a call that returns after n
\* successful requests returns n blocks "Q: qi\nA: ai" in question order,
\* joined by the separator; for the empty list the dossier is empty.
C26_DossierOfPlan ==
    \A d \in QuestionDocs :
        sIn.plan = identify_gaps(GenText(<<d>>), TRUE) /\ sOut.pc = "returned"
        /\ (\A k \in 1..Len(sOut.log) : sOut.log[k] = "ok")
        => LET qs == JsonDocs[d].v["research_questions"].v
           IN /\ sOut.requests = [i \in 1..Len(qs) |-> qs[i].v]
              /\ BlockPerQuestion(qs)
              /\ qs = <<>> => sOut.dossier = <<>>

\* C26 witness: the plan made of the response with "Cost?" and
\* "Implementation?", both requests answered: a dossier of two blocks.
C26_Witness ==
    /\ sOut.pc = "returned"
    /\ sIn.plan = identify_gaps(GenText(<<"{rq2}">>), TRUE)
    /\ sOut.log = <<"ok", "ok">>
    /\ sOut.dossier = <<"Q: ", "Cost?", "\nA: ", "a1", "\n", "\n---\n",
                        "Q: ", "Implementation?", "\nA: ", "a1", "\n">>

----------------------------------------------------------------------------
(* The Architect alone: one call of synthesize_strategy *)

ArchitectTexts ==
    { <<"not json">>, <<>>, <<" ", "not json", "\n">>,
      Fence \o <<"not json">> \o Fence,
      <<"{full}">>, FenceJson \o <<"\n", "{full}", "\n">> \o Fence,
      Fence \o <<"{plain}">> \o Fence, <<"{plain}">>, <<"{claude}">>,
      <<"{nullents}">>, <<"{numcontent}">>, <<"{nullcontent}">>, <<"{bare}">>,
      <<"{strmarketing}">>, <<"{emptymarketing}">>, <<"{halfmarketing}">>,
      <<"{nummarketing}">>, <<"[{full}]">>, <<"[]">>, <<"[5]">>, <<"5">>,
      <<"{full}", "trailing prose">> }

ArchitectCalls == {GenExc, GenNoText} \cup {GenText(t) : t \in ArchitectTexts}

InitArchitect ==
    /\ nodes = <<>> /\ edges = {} /\ now = 0 /\ synced = {}
    /\ files = DirTwoVideos /\ history = <<>> /\ neo4jOn = TRUE
    /\ pc = "idle" /\ run = NoRun /\ trace = <<>> /\ runs = 0
    /\ rpc = [r \in Refiners |-> "idle"]
    /\ rst = [r \in Refiners |-> NoRef]
    /\ rruns = 0
    /\ sIn = NoScoutIn
    /\ sOut = NoScoutOut
    /\ aIn \in [resp : ArchitectCalls, vid : {<<"a">>, <<>>},
                fileOK : BOOLEAN, logOK : BOOLEAN]
    /\ aOut = [pc |-> "start"]
    /\ nIn = NoNormIn
    /\ nOut = NoNormOut
    /\ syncPc = [i \in Syncs |-> "off"]
    /\ syncSt = [i \in Syncs |-> NoSync]

\* the call and its return value
ArchitectCall ==
    /\ aOut.pc = "start"
    /\ aOut' = [pc |-> "returned",
                r |-> synthesize_strategy(aIn.resp, aIn.vid, aIn.fileOK, aIn.logOK)]
    /\ UNCHANGED <<graphVars, pipeVars, refVars, scoutVars, aIn, normVars, syncVars>>

NextArchitect == ArchitectCall

SpecArchitect == InitArchitect /\ [][NextArchitect]_vars

\* the call's response text does not parse as the brief's structured data
Malformed ==
    /\ aIn.resp.k = "text"
    /\ ~ArchitectParse(clean_json_text(aIn.resp.text), aIn.vid).ok

\* the result of a malformed response whose writes succeed
FallbackResult ==
    LET text == clean_json_text(aIn.resp.text)
    IN [raised |-> FALSE, brief |-> Str(text), entities |-> EmptyList,
        saved |-> Dict([name |-> Str(aIn.vid \o <<"_">> \o FallbackName),
                        content |-> Str(text)])]

\* C9: synthesize_strategy never raises: it returns (None, []) or a pair of a
\* brief text and an entity value, whatever the model call, the parse and
\* the file writes do.
C9_NeverRaises ==
    aOut.pc = "returned" =>
        /\ ~aOut.r.raised
        /\ aOut.r.brief.t \in {"none", "str"}
        /\ aOut.r.brief = None => aOut.r.entities = EmptyList

\* C9 witness: a call whose brief file cannot be written returned (None, []).
C9_Witness ==
    /\ aOut.pc = "returned"
    /\ aIn.resp = GenText(<<"{full}">>)
    /\ ~aIn.fileOK
    /\ aOut.r.brief = None
    /\ aOut.r.entities = EmptyList

\* C10 as stated: a malformed response always yields (raw cleaned text, [])
\* persisted under "{video_id}_strategy_fallback.md".
C10_Original ==
    aOut.pc = "returned" /\ Malformed => aOut.r = FallbackResult

\* C10 amended: a malformed response yields (raw cleaned text, []) persisted
\* under "{video_id}_strategy_fallback.md" when the brief file and the debug
\* log can be written, and (None, []) when one of the two writes fails.
C10_Fallback ==
    aOut.pc = "returned" /\ Malformed =>
        IF aIn.fileOK /\ aIn.logOK
        THEN aOut.r = FallbackResult
        ELSE aOut.r.brief = None /\ aOut.r.entities = EmptyList /\ ~aOut.r.raised

\* C10 witness: fenced prose came back as the brief, saved as the fallback file.
C10_Witness ==
    /\ aOut.pc = "returned"
    /\ aIn.resp = GenText(Fence \o <<"not json">> \o Fence)
    /\ aIn.vid = <<"a">>
    /\ aIn.fileOK /\ aIn.logOK
    /\ aOut.r.brief = Str(<<"not json">>)
    /\ aOut.r.saved = Dict([name |-> Str(<<"a", "_", "strategy_fallback.md">>),
                            content |-> Str(<<"not json">>)])

\* the parsed response of the call when it is a list, else the empty list
ParsedList ==
    IF aIn.resp.k = "text" /\ JsonLoads(clean_json_text(aIn.resp.text)).ok
          /\ JsonLoads(clean_json_text(aIn.resp.text)).v.t = "list"
    THEN JsonLoads(clean_json_text(aIn.resp.text)).v.v
    ELSE <<>>

\* the call returned what it returns for the document d alone
SameAsAlone(d) ==
    aOut.r = synthesize_strategy(GenText(<<d>>), aIn.vid, aIn.fileOK, aIn.logOK)

\* C24 as stated: a response that parses to a list gives what its first
\* element alone gives, brief, entities and file; a response whose parse
\* fails, an empty list and a list of something else than objects included,
\* gives the raw cleaned text as brief with an empty entity list.
C24_Original ==
    aOut.pc = "returned" =>
        /\ \A d \in DOMAIN JsonDocs :
                ParsedList # <<>> /\ ParsedList[1] = JsonDocs[d] /\ JsonDocs[d].t = "dict"
                    => SameAsAlone(d)
        /\ Malformed =>
                /\ aOut.r.brief = Str(clean_json_text(aIn.resp.text))
                /\ aOut.r.entities = EmptyList

\* C24 amended: the same, the fallback being what the call returns when the
\* brief file and the debug log can be written; when one of the two writes
\* fails the call returns (None, []).
C24_ListHead ==
    aOut.pc = "returned" =>
        /\ \A d \in DOMAIN JsonDocs :
                ParsedList # <<>> /\ ParsedList[1] = JsonDocs[d] /\ JsonDocs[d].t = "dict"
                    => SameAsAlone(d)
        /\ Malformed /\ aIn.fileOK /\ aIn.logOK =>
                /\ aOut.r.brief = Str(clean_json_text(aIn.resp.text))
                /\ aOut.r.entities = EmptyList
        /\ Malformed /\ ~(aIn.fileOK /\ aIn.logOK) =>
                /\ aOut.r.brief = None
                /\ aOut.r.entities = EmptyList

\* C24 witness: a list around the full document gave the brief, the
\* entities and the file name of the document.
C24_Witness ==
    /\ aOut.pc = "returned"
    /\ aIn.resp = GenText(<<"[{full}]">>)
    /\ aIn.vid = <<"a">> /\ aIn.fileOK /\ aIn.logOK
    /\ aOut.r.entities = List(<<EntClaudeModel, EntCursor>>)
    /\ aOut.r.brief.t = "str"
    /\ aOut.r.saved.v["name"] = Str(<<"a", "_", "smart_name.md">>)

\* C24 witness of the fallback: an empty list came back as its own text.
C24_WitnessEmptyList ==
    /\ aOut.pc = "returned"
    /\ aIn.resp = GenText(<<"[]">>)
    /\ aIn.fileOK /\ aIn.logOK
    /\ aOut.r.brief = Str(<<"[]">>)
    /\ aOut.r.entities = EmptyList

----------------------------------------------------------------------------
(* The Text Normalizer alone: one call of clean_json_text.  An input is    *)
(* response.text: None, or a text built as leading whitespace, an opening  *)
(* fence with or without a language tag, the inner content, a closing      *)
(* fence, and trailing whitespace.                                         *)

MaxInner == 2

Pads == {<<>>, <<" ">>, <<"\n">>}
InnerAlphabet == {"{full}", "x", "bt", " ", "\n"}
Inners == UNION {[1..n -> InnerAlphabet] : n \in 0..MaxInner}

\* the text of an opening fence: absent, bare, tagged json, tagged python
OpenText(o) ==
    CASE o = "none" -> <<>>
      [] o = "plain" -> Fence
      [] o = "json" -> FenceJson
      [] o = "py" -> Fence \o <<"p", "y">>

\* the text of a closing fence
CloseText(c) == IF c THEN Fence ELSE <<>>

\* a side without a fence is a side whose content shows no fence
WellFenced(x) ==
    /\ x.open = "none" => ~StartsWith(Strip(x.inner), Fence)
    /\ ~x.close => ~EndsWith(Strip(x.inner), Fence)

NormInputs ==
    {[kind |-> "none"]} \cup
    {x \in [kind : {"text"}, lead : Pads, open : {"none", "plain", "json", "py"},
            inner : Inners, close : BOOLEAN, trail : Pads] : WellFenced(x)}

NormText(x) == x.lead \o OpenText(x.open) \o x.inner \o CloseText(x.close) \o x.trail

InitNormalizer ==
    /\ nodes = <<>> /\ edges = {} /\ now = 0 /\ synced = {}
    /\ files = DirTwoVideos /\ history = <<>> /\ neo4jOn = TRUE
    /\ pc = "idle" /\ run = NoRun /\ trace = <<>> /\ runs = 0
    /\ rpc = [r \in Refiners |-> "idle"]
    /\ rst = [r \in Refiners |-> NoRef]
    /\ rruns = 0
    /\ sIn = NoScoutIn
    /\ sOut = NoScoutOut
    /\ aIn = NoArchIn
    /\ aOut = NoArchOut
    /\ nIn \in NormInputs
    /\ nOut = [pc |-> "start"]
    /\ syncPc = [i \in Syncs |-> "off"]
    /\ syncSt = [i \in Syncs |-> NoSync]

\* the call: text.strip(), line 83, raises AttributeError for None
NormalizerCall ==
    /\ nOut.pc = "start"
    /\ nOut' = IF nIn.kind = "none" THEN [pc |-> "raised"]
               ELSE [pc |-> "returned", out |-> clean_json_text(NormText(nIn))]
    /\ UNCHANGED <<graphVars, pipeVars, refVars, scoutVars, archVars, nIn, syncVars>>

NextNormalizer == NormalizerCall

SpecNormalizer == InitNormalizer /\ [][NextNormalizer]_vars

\* C11: clean_json_text raises for no input, and for the empty text it
\* returns the empty structured-data token.
C11_Original ==
    /\ nOut.pc # "raised"
    /\ nOut.pc = "returned" /\ NormText(nIn) = <<>> => nOut.out = <<"{}">>

----------------------------------------------------------------------------
(* The Graph Synchronizer called by two processes at once, each for its    *)
(* own case, over an empty store: the statements of the two calls          *)
(* interleave, each statement taking effect as a whole.                    *)

InitSync ==
    /\ nodes = <<>> /\ edges = {} /\ now = 0 /\ synced = {}
    /\ files = DirTwoVideos /\ history = <<>> /\ neo4jOn = TRUE
    /\ pc = "idle" /\ run = NoRun /\ trace = <<>> /\ runs = 0
    /\ rpc = [r \in Refiners |-> "idle"]
    /\ rst = [r \in Refiners |-> NoRef]
    /\ rruns = 0
    /\ sIn = NoScoutIn
    /\ sOut = NoScoutOut
    /\ aIn = NoArchIn
    /\ aOut = NoArchOut
    /\ nIn = NoNormIn
    /\ nOut = NoNormOut
    /\ syncPc = [i \in Syncs |-> "base"]
    /\ \E e1, e2 \in {<<>>, <<EntClaudeModel, EntCursor>>,
                       <<EntClaudeTool, EntNoType, EntNoName>>, <<EntCursor, EntNoDetail>>} :
        syncSt = [i \in Syncs |->
                    IF i = "s1"
                    THEN [NoSync EXCEPT !.vid = <<"a">>, !.strategy = Brief1,
                                        !.research = <<"dossier one">>, !.entities = e1]
                    ELSE [NoSync EXCEPT !.vid = <<"b">>, !.strategy = Brief2,
                                        !.research = <<"dossier two">>, !.entities = e2]]

\* lines 296-326 of the call i: the connection and the base statement
SyncCallBase(i) ==
    /\ syncPc[i] = "base"
    /\ \E out \in {"driver_error", "base_error", "ok"} :
        IF out = "ok"
        THEN LET g == SyncBaseStmt(Graph, syncSt[i].vid, syncSt[i].strategy,
                                   syncSt[i].research, now)
                 batch == ValidEntities(syncSt[i].entities)
             IN /\ nodes' = g.nodes
                /\ edges' = g.edges
                /\ syncSt' = [syncSt EXCEPT ![i].batch = batch, ![i].t = now,
                                            ![i].log = Append(@, "base")]
                /\ syncPc' = [syncPc EXCEPT ![i] = IF batch = <<>> THEN "done" ELSE "entities"]
        ELSE /\ UNCHANGED <<nodes, edges>>
             /\ syncSt' = [syncSt EXCEPT ![i].log = Append(@, out)]
             /\ syncPc' = [syncPc EXCEPT ![i] = "done"]
    /\ UNCHANGED <<now, synced, pipeVars, refVars, scoutVars, archVars, normVars>>

\* lines 327-334 of the call i: the entity statement
SyncCallEntities(i) ==
    /\ syncPc[i] = "entities"
    /\ \E dbOK \in BOOLEAN :
        IF dbOK /\ ~EntityStmtFails(syncSt[i].batch)
        THEN LET g == SyncEntitiesStmt(Graph, syncSt[i].vid, syncSt[i].batch)
             IN /\ nodes' = g.nodes
                /\ edges' = g.edges
                /\ syncSt' = [syncSt EXCEPT ![i].log = Append(@, "entities")]
        ELSE /\ UNCHANGED <<nodes, edges>>
             /\ syncSt' = [syncSt EXCEPT ![i].log = Append(@, "entities_error")]
    /\ syncPc' = [syncPc EXCEPT ![i] = "done"]
    /\ UNCHANGED <<now, synced, pipeVars, refVars, scoutVars, archVars, normVars>>

NextSync ==
    \/ \E i \in Syncs : SyncCallBase(i)
    \/ \E i \in Syncs : SyncCallEntities(i)
    \/ Tick

SpecSync == InitSync /\ [][NextSync]_vars

\* a graph without the order its nodes were created in
Canon(g) ==
    [count |-> Len(g.nodes),
     nodes |-> {g.nodes[k] : k \in 1..Len(g.nodes)},
     edges |-> {[type |-> e.type, props |-> e.props,
                 from |-> g.nodes[e.from], to |-> g.nodes[e.to]] : e \in g.edges}]

\* the call st run alone over g, its statements ending as its log says
SyncAlone(g, st) ==
    IF st.log = <<"base", "entities">>
    THEN SyncEntitiesStmt(SyncBaseStmt(g, st.vid, st.strategy, st.research, st.t),
                          st.vid, st.batch)
    ELSE IF st.log # <<>> /\ st.log[1] = "base"
    THEN SyncBaseStmt(g, st.vid, st.strategy, st.research, st.t)
    ELSE g

EmptyGraph == [nodes |-> <<>>, edges |-> {}]

\* the graph of the two calls run one after the other, first then second
Sequential(first, second) == SyncAlone(SyncAlone(EmptyGraph, syncSt[first]), syncSt[second])

\* the call i left one Video, one Strategy and one Research node for its
\* case, with its own texts, and a MENTIONS edge per entity of its batch
OwnTriple(i) ==
    LET st == syncSt[i]
        vs == Match(Graph, "Video", "id", st.vid)
        ss == Match(Graph, "Strategy", "id", st.vid \o <<"_strat">>)
        rs == Match(Graph, "Research", "id", st.vid \o <<"_res">>)
    IN /\ Cardinality(vs) = 1 /\ Cardinality(ss) = 1 /\ Cardinality(rs) = 1
       /\ \A x \in ss : nodes[x].props.content = st.strategy
       /\ \A x \in rs : nodes[x].props.content = st.research
       /\ \A x \in vs, y \in ss :
            [type |-> <<"YIELDS_STRATEGY">>, from |-> x, to |-> y, props |-> NoProps] \in edges
       /\ \A y \in ss, z \in rs :
            [type |-> <<"BASED_ON_RESEARCH">>, from |-> y, to |-> z, props |-> NoProps] \in edges
       /\ st.log = <<"base", "entities">> =>
            \A k \in 1..Len(st.batch) : \A y \in ss :
                \E e \in Match(Graph, "Entity", "name", st.batch[k].v["name"].v) :
                    [type |-> <<"MENTIONS">>, from |-> y, to |-> e,
                     props |-> [detail |-> st.batch[k].v["detail"].v]] \in edges

\* C19: when the two calls are over, however their statements interleaved,
\* each call whose base statement took effect has left one Video, Strategy
\* and Research node of its case with its own texts and the MENTIONS edges
\* of its own batch, there is one Entity node per name, and the graph is the
\* one of the two calls run one after the other in some order.
C19_Serializable ==
    (\A i \in Syncs : syncPc[i] = "done") =>
        /\ \A i \in Syncs : syncSt[i].log[1] = "base" => OwnTriple(i)
        /\ \A n \in EntityNames : Cardinality(Match(Graph, "Entity", "name", n)) = 1
        /\ \/ Canon(Graph) = Canon(Sequential("s1", "s2"))
           \/ Canon(Graph) = Canon(Sequential("s2", "s1"))

\* C19 witness: both calls are over with both statements in effect, the base
\* statement of the second call having run between the base statement and
\* the entity statement of the first, and both mention Claude.
C19_Witness ==
    /\ \A i \in Syncs : syncPc[i] = "done" /\ syncSt[i].log = <<"base", "entities">>
    /\ Len(nodes) = 8
    /\ nodes[1].label = "Video" /\ nodes[1].props.id = <<"a">>
    /\ nodes[4].label = "Video" /\ nodes[4].props.id = <<"b">>
    /\ nodes[7].label = "Entity"
    /\ Cardinality({e \in edges : e.type = <<"MENTIONS">> /\ nodes[e.to].props.name = Claude}) = 2

----------------------------------------------------------------------------
(* The Refiner alone over a store the pipeline has filled: two processes   *)
(* of graph_refiner.py, whose invocations may overlap.                     *)

\* the store after the run of case "a" whose entity batch held Claude
GraphA ==
    SyncEntitiesStmt(SyncBaseStmt(EmptyGraph, <<"a">>, Brief2, <<"dossier one">>, 0),
                     <<"a">>, ValidEntities(DocPlain.v["entities"].v))

\* and after the run of case "b" that followed, with Claude and Cursor
GraphAB ==
    SyncEntitiesStmt(SyncBaseStmt(GraphA, <<"b">>, Brief1, <<"dossier two">>, 0),
                     <<"b">>, ValidEntities(DocFull.v["entities"].v))

\* what the Refiner's model may answer
RefinerTexts ==
    {GenExc, GenText(<<"[rels]">>), GenText(<<"[mixedrels]">>), GenText(<<"[badrels]">>),
     GenText(<<"{rels}">>), GenText(<<"[]">>), GenText(<<"5">>)}

InitRefiner ==
    /\ \E g \in {GraphA, GraphAB} : nodes = g.nodes /\ edges = g.edges
    /\ now = 0 /\ synced = {}
    /\ files = DirTwoVideos /\ history = <<>> /\ neo4jOn = TRUE
    /\ pc = "idle" /\ run = NoRun /\ trace = <<>> /\ runs = 0
    /\ rpc = [r \in Refiners |-> "idle"]
    /\ rst = [r \in Refiners |-> NoRef]
    /\ rruns = 0
    /\ sIn = NoScoutIn
    /\ sOut = NoScoutOut
    /\ aIn = NoArchIn
    /\ aOut = NoArchOut
    /\ nIn = NoNormIn
    /\ nOut = NoNormOut
    /\ syncPc = [i \in Syncs |-> "off"]
    /\ syncSt = [i \in Syncs |-> NoSync]

NextRefiner ==
    \/ \E r \in Refiners : RefinerMain(r)
    \/ \E r \in Refiners : RefinerIdentifyOf(r, RefinerTexts)
    \/ \E r \in Refiners : RefinerApply(r)
    \/ \E r \in Refiners : RefinerStamp(r)
    \/ \E r \in Refiners : RefinerExit(r)
    \/ Tick

SpecRefiner == InitRefiner /\ [][NextRefiner]_vars

\* how many statements of the log completed
Completed(log) == Cardinality({k \in 1..Len(log) : log[k] = "ok"})

\* C21: in apply_relationships a pass of the loop over a triple, whether its
\* statement completes or fails, leaves the call in the loop with the rest
\* of the triples and the same candidate; a malformed triple fails; the
\* count is the number of statements that completed; and the step after the
\* last triple is the stamp, which marks the Strategy refined when the store
\* takes it.
C21_TripleFailureSkipped ==
    [][\A r \in Refiners :
        /\ rpc[r] = "apply" /\ rst[r].rels # <<>> /\ rst'[r] # rst[r] =>
             /\ rpc'[r] = "apply"
             /\ rst'[r].rels = Tail(rst[r].rels)
             /\ rst'[r].cands = rst[r].cands
             /\ Len(rst'[r].log) = Len(rst[r].log) + 1
             /\ rst'[r].count = Completed(rst'[r].log)
             /\ TripleFails(Head(rst[r].rels)) => rst'[r].log[Len(rst'[r].log)] = "error"
        /\ rpc[r] = "apply" /\ rst[r].rels = <<>> /\ rst'[r] # rst[r] =>
             /\ rst[r].count = Completed(rst[r].log)
             /\ \/ rpc'[r] = "done" /\ rst'[r].cands = <<>> /\ nodes' = nodes /\ edges' = edges
                \/ /\ Head(rst[r].cands).id \in rst'[r].done
                   /\ \E s \in Match([nodes |-> nodes', edges |-> edges'], "Strategy", "id",
                                     Head(rst[r].cands).id) :
                        Refined([nodes |-> nodes', edges |-> edges'], s)]_vars

\* C21 witness: the loop over a list of two triples is over, the first
\* having failed for its missing rel and the second merged; the count is 1
\* and the stamp is next.
C21_Witness ==
    /\ rpc["r1"] = "apply"
    /\ rst["r1"].rels = <<>>
    /\ rst["r1"].log = <<"error", "ok">>
    /\ rst["r1"].count = 1
    /\ \E e \in edges : e.type = <<"POWERS">>

\* C22: a step of the Refiner leaves every node that exists as it is, type
\* of an Entity and content of a Video, Strategy or Research node included,
\* and a node it adds is a RefinerLog node or an Entity node that carries a
\* name and nothing else.
C22_RefinerSetsNoType ==
    [][/\ Len(nodes') >= Len(nodes)
       /\ \A i \in 1..Len(nodes) : nodes'[i] = nodes[i]
       /\ \A i \in (Len(nodes) + 1)..Len(nodes') :
            \/ nodes'[i].label = "RefinerLog"
            \/ nodes'[i].label = "Entity" /\ DOMAIN nodes'[i].props = {"name"}]_vars

\* C22 witness: over the store that held Claude alone, typed by the
\* pipeline, the Refiner has merged a triple between Cursor and Claude:
\* Cursor is there without a type and Claude has kept its own.
C22_Witness ==
    /\ \E i \in 1..Len(nodes) :
            /\ nodes[i].label = "Entity" /\ nodes[i].props.name = Cursor
            /\ DOMAIN nodes[i].props = {"name"}
    /\ \E i \in 1..Len(nodes) :
            /\ nodes[i].label = "Entity" /\ nodes[i].props.name = Claude
            /\ nodes[i].props.type = Tool
    /\ \E e \in edges : e.type = <<"INTEGRATES_WITH">>
    /\ \E i \in 1..Len(nodes) :
            nodes[i].label = "Strategy" /\ nodes[i].props.content = Brief2

\* a triple that names a source, a target and a verb outside the vocabulary
OffVocabulary(t) ==
    /\ t.t = "dict"
    /\ {"rel", "source", "target"} \subseteq DOMAIN t.v
    /\ t.v["source"].t = "str" /\ t.v["target"].t = "str" /\ t.v["rel"].t = "str"
    /\ t.v["rel"].v \notin Vocabulary

\* a relationship of the triple's own verb between its two entities
MergedAsGiven(t, ns, es) ==
    \E e \in es :
        /\ e.type = t.v["rel"].v
        /\ ns[e.from].label = "Entity" /\ ns[e.from].props.name = t.v["source"].v
        /\ ns[e.to].label = "Entity" /\ ns[e.to].props.name = t.v["target"].v

\* C23 as stated: a pass of the loop over a triple whose verb is outside the
\* vocabulary, the store taking statements, merges a relationship of
\* exactly that verb between the two entities.
C23_Original ==
    [][\A r \in Refiners :
        /\ rpc[r] = "apply" /\ rst[r].rels # <<>> /\ rst'[r] # rst[r]
        /\ OffVocabulary(Head(rst[r].rels))
        /\ rst'[r].log[Len(rst'[r].log)] # "store_error"
        => MergedAsGiven(Head(rst[r].rels), nodes', edges')]_vars

\* C23 amended: the verb is used as it is, without a check against the
\* vocabulary: when the statement of such a triple completes, a relationship
\* of exactly that verb is merged between the two entities; a verb the
\* query language does not read as a relationship type makes the statement
\* fail, and the triple is skipped with the graph as it was.
C23_VerbUsedAsGiven ==
    [][\A r \in Refiners :
        /\ rpc[r] = "apply" /\ rst[r].rels # <<>> /\ rst'[r] # rst[r]
        /\ OffVocabulary(Head(rst[r].rels))
        => IF CypherIdentifier(Head(rst[r].rels).v["rel"].v)
           THEN rst'[r].log[Len(rst'[r].log)] = "ok"
                    => MergedAsGiven(Head(rst[r].rels), nodes', edges')
           ELSE /\ rst'[r].log[Len(rst'[r].log)] = "error"
                /\ nodes' = nodes /\ edges' = edges]_vars

\* C23 witness: the graph holds a POWERS relationship from Claude to Cursor,
\* a verb the vocabulary does not have, merged by a call whose count is 1.
C23_Witness ==
    /\ \E e \in edges :
            /\ e.type = <<"POWERS">>
            /\ nodes[e.from].props.name = Claude /\ nodes[e.to].props.name = Cursor
    /\ \E r \in Refiners : rpc[r] = "apply" /\ rst[r].count = 1 /\ rst[r].rels = <<>>
    /\ <<"POWERS">> \notin Vocabulary

\* The Refiner run again and again, one invocation after the other, over a
\* store that takes every statement and that no pipeline run writes to. The
\* process is scheduled until it ends and is then started again; what the
\* generation model answers is not constrained.
NextRefinerLive ==
    \/ RefinerAgain("r1")
    \/ RefinerIdentifyOf("r1", RefinerTexts)
    \/ RefinerApplyOf("r1", {TRUE})
    \/ RefinerStampOf("r1", {TRUE})
    \/ RefinerExit("r1")
    \/ Tick

SpecRefinerLive ==
    /\ InitRefiner
    /\ [][NextRefinerLive]_vars
    /\ WF_vars(RefinerAgain("r1"))
    /\ WF_vars(RefinerIdentifyOf("r1", RefinerTexts))
    /\ WF_vars(RefinerApplyOf("r1", {TRUE}))
    /\ WF_vars(RefinerStampOf("r1", {TRUE}))
    /\ WF_vars(RefinerExit("r1"))

\* every Strategy node has an outgoing REFINED_BY relationship
AllRefined == \A s \in 1..Len(nodes) : nodes[s].label = "Strategy" => Refined(Graph, s)

\* C28 as stated: with the Refiner invoked again and again, the store
\* reachable and no Strategy added, every Strategy node is eventually
\* Refined, whatever its model calls yield.
C28_Original == <>AllRefined

\* the ids of the Strategy nodes whose text the invocation r has sent to the
\* generation model: the candidates it is through with, and the one whose
\* triples it is applying
SentBy(r) ==
    rst[r].done \cup (IF rpc[r] = "apply" THEN {Head(rst[r].cands).id} ELSE {})

\* C29 as stated: with two invocations of the Refiner under way at once, a
\* Strategy has at most one outgoing REFINED_BY relationship and its text is
\* sent to the generation model by at most one of the two.
C29_Original ==
    /\ \A s \in 1..Len(nodes) : nodes[s].label = "Strategy" => Cardinality(StampsOf(s)) <= 1
    /\ SentBy("r1") \cap SentBy("r2") = {}

====
